---- MODULE Spec2Model ----
(***************************************************************************)
(* A model of the DREAM CSC device link (lsst-ts/ts_dream):                *)
(*                                                                         *)
(*   - the protocol client, DreamModel (csc/model/dream_model.py): one     *)
(*     TCP connection, one asyncio lock, one request-id generator;         *)
(*   - the link supervisor, DreamCsc (csc/dream_csc.py): connect,          *)
(*     disconnect, the health monitor and the two polling loops;           *)
(*   - the data retrieval pipeline, DreamCsc.upload_data_product.          *)
(*                                                                         *)
(* The program runs on one asyncio event loop: a coroutine runs without    *)
(* interruption from one await to the next.  Every action below is one     *)
(* such uninterrupted run of one task.                                     *)
(*                                                                         *)
(* Three specifications share the variables.  SpecWrite moves only the     *)
(* protocol client's variables, Spec the supervisor's, SpecUpload the      *)
(* pipeline's; the variables a specification does not move keep their      *)
(* initial values.                                                         *)
(***************************************************************************)
EXTENDS Integers, Sequences, FiniteSets, TLC

VARIABLES
    \* ---- protocol client (DreamModel) ----
    client_connected,   \* self.client.connected
    cmd_lock,           \* self.cmd_lock: the task holding it, or NoTask
    index_generator,    \* the value next(self.index_generator) returns next
    wpc,                \* per caller of write(): where the call stands
    request_id,         \* per caller: write()'s local request_id
    last_call,          \* the last finished write(): its request_id, the
                        \* response it read and how it ended
    to_server,          \* requests written to the socket, not yet consumed
    from_server,        \* replies in the socket, not yet read
    last_sent,          \* the request id last written to a socket by this
                        \* process, 0 before the first
    \* ---- link supervisor (DreamCsc) ----
    run_data_product_loop,  \* config.run_data_product_loop
    own_mock,           \* simulation_mode == 1 and mock_port is None
    config,             \* self.config: "none" or "set"
    roof,               \* the data of the last setRoof request the
                        \* controller received (MockDream.roof)
    summary_state,      \* self.summary_state
    model,              \* self.model: "none" or "present"
    mock,               \* self.mock is not None
    weather_and_status_loop_task,   \* the task handles: a task, or NoTask
    data_product_loop_task,         \* for utils.make_done_future()
    health_monitor_loop_task,
    running,            \* the task the event loop is running, or NoTask
    pc,                 \* per task: where its coroutine stands
    ctx,                \* per task: the operation it is running
    must_cancel,        \* per task: cancel() was called on it
    awaiting,           \* per task: the tasks its await waits for
    detached,           \* per task: the DreamModel it is inside is no
                        \* longer self.model
    attempt_number,     \* per health monitor: its local attempt_number
    elapsed,            \* per health monitor: time.time() - reconnect_time
    connect_calls,      \* per health monitor: connect() calls it has made
    waits,              \* per health monitor: the backoff sleeps it made
    fault_calls,        \* per health monitor: fault() calls it has made
    reported,           \* per health monitor: the attempt count reported
    last_op,            \* the last of connect()/disconnect() to return
    commands,           \* the commands issued so far
    drops,              \* the times the surroundings failed the program so far
    \* ---- data retrieval (data_product_loop, upload_data_product) ----
    upc,                \* where the data product loop stands
    response,           \* the reply write() returned to the last
                        \* get_new_data_products(), or NoList
    data_products,      \* the list the current poll returned: archive keys
    data_product,       \* the index in data_products of the current product
    product,            \* the current product: whether its filename starts
                        \* with "/tmpdata/", whether its server is in
                        \* config.data_product_host
    skip_tmpdata_products,  \* config.skip_tmpdata_products
    s3bucket,           \* the keys uploaded to S3
    local_disk,         \* the keys written to the local disk
    attempts,           \* this cycle: the products upload_data_product was
                        \* called for, in call order
    failed,             \* this cycle: the products whose call raised
    fetches,            \* per key: HTTP fetches made
    uploads,            \* per key: uploads to S3 made
    events,             \* the keys a largeFileObjectAvailable event was
                        \* written for
    cycles,             \* the poll cycles completed
    \* ---- status translation (StatusTopicsBuilder, map_to_bitfield) ----
    camera_event_cache, \* self.camera_event_cache: per camera, the event
                        \* last built for it, or NoEvent
    dream_status,       \* the status document of the last __call__
    all_topics,         \* what the last __call__ returned
    call_raised,        \* the exception the last __call__ raised, or "none"
    ncalls,             \* the calls of __call__ made so far
    messages,           \* the arguments of map_to_bitfield
    message_map,
    bitfield,           \* and the pairs it has returned
    \* ---- simulated controller (MockDream.read_loop) ----
    rpc,                \* where read_loop stands
    items,              \* the request read_json() returned last
    received,           \* the requests read so far
    written,            \* the replies written so far
    \* ---- numeric null-handling (to_int, to_float, enum_value_from_str) ----
    raw_camera,         \* camera: one entry of dream_status["cameras"]
    event_data,         \* the new_event built from it, or NoData
    electronics,        \* dream_status["electronics"]: peltier_relay and
                        \* peltier_dir
    temperature_control_event, \* the temperatureControl records built
                        \* from it
    \* ---- the bodies of the two loops (error handling) ----
    loop_pc,            \* per loop: the statement it stands at
    loop_raised,        \* per loop: what the call it made last raised, or
                        \* "none"
    loop_exc,           \* per loop: the exception its task ended with, or
                        \* "none"
    pending,            \* the data products of the current poll that are
                        \* still to be uploaded
    ess_retries,        \* ess_retries of weather_and_status_loop
    \* ---- the weather checks of weather_and_status_loop ----
    weather_limits,     \* self.config.weather_limits
    log_debug,          \* self.log.isEnabledFor(logging.DEBUG)
    ess_samples,        \* what the ESS remote gave in the current cycle
    last_weather_ok_flag, \* "None", "True" or "False"
    weather_sent        \* the argument of set_weather_ok in the current
                        \* cycle, "failed" if the cycle ended in the
                        \* handler of line 495, "none" before the first

wvars == <<client_connected, cmd_lock, index_generator, wpc, request_id,
           last_call, to_server, from_server, last_sent>>

cfgvars == <<run_data_product_loop, own_mock>>

handles == <<weather_and_status_loop_task, data_product_loop_task,
             health_monitor_loop_task>>

hmvars == <<attempt_number, elapsed, connect_calls, waits, fault_calls,
            reported>>

envvars == <<commands, drops>>

cscvars == <<cfgvars, config, roof, summary_state, model, mock, handles, running,
             pc, ctx, must_cancel, awaiting, detached, hmvars, last_op,
             envvars>>

uvars == <<upc, response, data_products, data_product, product,
           skip_tmpdata_products, s3bucket,
           local_disk, attempts, failed, fetches, uploads, events, cycles>>

tvars == <<camera_event_cache, dream_status, all_topics, call_raised, ncalls,
           messages, message_map, bitfield>>

mvars == <<rpc, items, received, written>>

evars == <<raw_camera, event_data, electronics, temperature_control_event>>

lvars == <<loop_pc, loop_raised, loop_exc, pending, ess_retries>>

essvars == <<weather_limits, log_debug, ess_samples, last_weather_ok_flag,
             weather_sent>>

svars == <<cscvars, uvars, tvars, mvars, evars, lvars, essvars>>

\* What the protocol client's specification leaves alone, and the
\* supervisor's.
wonly == <<index_generator, wpc, request_id, last_call, to_server,
           from_server, last_sent>>

vars == <<wvars, svars>>

(***************************************************************************)
(* Bounds.                                                                 *)
(***************************************************************************)
\* The largest request id one DreamModel instance hands out in the model.
MaxIndex == 3

\* How many health-monitor tasks, and how many tasks of each polling loop,
\* exist at once in the model.
MaxMonitors == 2
MaxLoops == 2

\* How many commands are issued, and how many times the surroundings fail
\* the program: a dropped connection, a failed request, a failed ESS read.
MaxCommands == 2
MaxLifecycle == 4
MaxDrops == 1

\* The largest attempt number for which the backoff wait is computed, and
\* the cap on the attempts of one health monitor.
MaxAttempt == 8

\* The archive keys, the longest list a poll returns, and the poll cycles
\* of the data product loop.
MaxKey == 2
MaxProducts == 3
MaxCycles == 2

\* The entries of one reply to getNewDataProducts that from_dict cannot
\* decode.
MaxBadEntries == 1

\* The status documents one StatusTopicsBuilder is given, the cameras in
\* a document, the sections and camera entries of a document that are
\* missing or malformed at once, and the field-sets the event of a camera
\* takes.
MaxCalls == 2
MaxCameras == 2
MaxBadKeys == 1
MaxFields == 2

\* The longest message list given to map_to_bitfield, and the largest bit
\* value of a message map.
MaxMessages == 3
MaxBits == 3

\* Numeric null-handling: the numbers a camera's fields hold.
MaxCount == 1

\* The simulated controller: the request identifiers and the requests read.
MaxRequestId == 2
MaxRequests == 2

(***************************************************************************)
(* The protocol client: DreamModel.                                        *)
(***************************************************************************)

\* The tasks that call DreamModel.write on the shared connection: the
\* weather/status loop, the data-product loop and a CSC command handler.
Callers == {<<"weather", 0>>, <<"data_product", 0>>, <<"command", 0>>}

\* The loop tasks, which DreamCsc.disconnect cancels.
LoopCallers == {<<"weather", 0>>, <<"data_product", 0>>}

\* utils.make_done_future(): a finished future with no exception.  It
\* also stands for "no task": the holder of a free lock.
NoTask == <<"none", 0>>

\* A request id no generator hands out (utils.index_generator starts at 1).
ForeignId == 0

\* A reply line.  A reply may lack "request_id" or "result".
NoResponse == [has_request_id |-> FALSE, request_id |-> 0,
               has_result |-> FALSE, result |-> "none"]

\* What the controller may answer to the request with id rid: success, an
\* error result, a line without "result", a line without "request_id", or
\* a line carrying another id.
RepliesTo(rid) ==
    { [has_request_id |-> TRUE, request_id |-> rid,
       has_result |-> TRUE, result |-> "ok"],
      [has_request_id |-> TRUE, request_id |-> rid,
       has_result |-> TRUE, result |-> "error"],
      [has_request_id |-> TRUE, request_id |-> rid,
       has_result |-> FALSE, result |-> "none"],
      [has_request_id |-> FALSE, request_id |-> 0,
       has_result |-> TRUE, result |-> "error"],
      [has_request_id |-> TRUE, request_id |-> ForeignId,
       has_result |-> TRUE, result |-> "ok"] }

NoCall == [caller |-> NoTask, request_id |-> 0, outcome |-> "none",
           response |-> NoResponse]

\* The checks DreamModel.write makes on the response it read, in the
\* code's order; "ok" is the one case in which write returns the response.
MutValidateNoIdCheck(resp, rid) ==
    IF ~resp.has_request_id THEN "no_request_id"
    ELSE IF ~resp.has_result THEN "no_result"
    ELSE IF resp.result # "ok" THEN "error_result"
    ELSE "ok"

Validate(resp, rid) ==
    IF ~resp.has_request_id THEN "no_request_id"
    ELSE IF resp.request_id # rid THEN "bad_request_id"
    ELSE IF ~resp.has_result THEN "no_result"
    ELSE IF resp.result # "ok" THEN "error_result"
    ELSE "ok"

\* The class of the exception write() raises for each way it fails: the
\* not-connected check (line 143) and the checks of the response (lines
\* 156-167) raise RuntimeError, with different messages; wait_for raises
\* TimeoutError (line 117), the client ConnectionError.
ExceptionClass(out) ==
    CASE out = "not_connected" -> "RuntimeError"
      [] out \in {"no_request_id", "bad_request_id", "no_result",
                  "error_result"} -> "RuntimeError"
      [] out = "timeout" -> "TimeoutError"
      [] out = "connection_error" -> "ConnectionError"
      [] out = "cancelled" -> "CancelledError"
      [] OTHER -> "none"

\* asyncio.Lock: "async with" enters without suspending iff the lock is
\* free, and suspends the caller otherwise.
MutLockFree == TRUE

LockFree == cmd_lock = NoTask

\* An "async with" that keeps the lock when it is left.
MutRelease(c) == cmd_lock

\* Leaving "async with self.cmd_lock" on any path releases the lock.
Release(c) == IF cmd_lock = c THEN NoTask ELSE cmd_lock

\* write() ends for caller c: it returns the response (out = "ok") or
\* raises.  Its locals are gone; last_call records the call.
Finish(c, out, resp) ==
    /\ last_call' = [caller |-> c, request_id |-> request_id[c],
                     outcome |-> out, response |-> resp]
    /\ wpc' = [wpc EXCEPT ![c] = "idle"]
    /\ request_id' = [request_id EXCEPT ![c] = 0]
    /\ cmd_lock' = Release(c)

\* The critical section up to the wait for the reply:
\* request_id = next(self.index_generator); write_json(...); read().
\* write_json raises ConnectionError on a closed client, and leaving the
\* "async with" then releases the lock.
SendRequest(c) ==
    /\ index_generator' = index_generator + 1
    /\ IF client_connected
       THEN /\ cmd_lock' = c
            /\ request_id' = [request_id EXCEPT ![c] = index_generator]
            /\ to_server' = Append(to_server, index_generator)
            /\ last_sent' = index_generator
            /\ wpc' = [wpc EXCEPT ![c] = "reading"]
            /\ UNCHANGED last_call
       ELSE /\ last_call' = [caller |-> c, request_id |-> index_generator,
                             outcome |-> "connection_error",
                             response |-> NoResponse]
            /\ wpc' = [wpc EXCEPT ![c] = "idle"]
            /\ cmd_lock' = Release(c)
            /\ UNCHANGED <<request_id, to_server, last_sent>>

\* write(), from its first line to its first suspension.
WriteEnter(c) ==
    /\ wpc[c] = "idle"
    /\ index_generator <= MaxIndex
    /\ IF ~client_connected
       THEN /\ Finish(c, "not_connected", NoResponse)
            /\ UNCHANGED <<index_generator, to_server, last_sent>>
       ELSE IF LockFree
       THEN SendRequest(c)
       ELSE /\ wpc' = [wpc EXCEPT ![c] = "acquire"]
            /\ UNCHANGED <<cmd_lock, index_generator, request_id, last_call,
                           to_server, last_sent>>
    /\ UNCHANGED <<client_connected, from_server>>

\* A caller suspended in "async with self.cmd_lock" gets the lock.
LockAcquired(c) ==
    /\ wpc[c] = "acquire"
    /\ LockFree
    /\ index_generator <= MaxIndex
    /\ SendRequest(c)
    /\ UNCHANGED <<client_connected, from_server>>

\* A write() that returns the line it read without checking it.
MutReadResponse(c) ==
    /\ wpc[c] = "reading"
    /\ client_connected
    /\ from_server # <<>>
    /\ Finish(c, "ok", Head(from_server))
    /\ from_server' = Tail(from_server)
    /\ UNCHANGED <<client_connected, index_generator, to_server, last_sent>>

\* read() returns a line; the lock is released; the response is checked.
ReadResponse(c) ==
    /\ wpc[c] = "reading"
    /\ client_connected
    /\ from_server # <<>>
    /\ LET resp == Head(from_server)
       IN Finish(c, Validate(resp, request_id[c]), resp)
    /\ from_server' = Tail(from_server)
    /\ UNCHANGED <<client_connected, index_generator, to_server, last_sent>>

\* No line arrives within config.read_timeout: wait_for raises TimeoutError.
ReadTimeout(c) ==
    /\ wpc[c] = "reading"
    /\ client_connected
    /\ from_server = <<>>
    /\ Finish(c, "timeout", NoResponse)
    /\ UNCHANGED <<client_connected, index_generator, to_server, from_server,
                   last_sent>>

\* The connection closed under the reader: read() raises.
ReadClosed(c) ==
    /\ wpc[c] = "reading"
    /\ ~client_connected
    /\ Finish(c, "connection_error", NoResponse)
    /\ UNCHANGED <<client_connected, index_generator, to_server, from_server,
                   last_sent>>

\* A loop task is cancelled while suspended inside write(): CancelledError
\* unwinds through "async with", which releases the lock if it is held.
CancelWrite(c) ==
    /\ c \in LoopCallers
    /\ wpc[c] \in {"acquire", "reading"}
    /\ Finish(c, "cancelled", NoResponse)
    /\ UNCHANGED <<client_connected, index_generator, to_server, from_server,
                   last_sent>>

\* The controller consumes the oldest request and answers it with some
\* reply line, or not at all.
ServerReply ==
    /\ client_connected
    /\ to_server # <<>>
    /\ to_server' = Tail(to_server)
    /\ \/ \E r \in RepliesTo(Head(to_server)) :
            from_server' = Append(from_server, r)
       \/ from_server' = from_server
    /\ UNCHANGED <<client_connected, cmd_lock, index_generator, wpc,
                   request_id, last_call, last_sent>>

\* DreamModel.disconnect: closes the client, without taking the lock.
ModelDisconnect ==
    /\ client_connected
    /\ client_connected' = FALSE
    /\ to_server' = <<>>
    /\ from_server' = <<>>
    /\ UNCHANGED <<cmd_lock, index_generator, wpc, request_id, last_call,
                   last_sent>>

\* DreamModel.connect: under the lock, a new client replaces self.client.
ModelConnect ==
    /\ LockFree
    /\ ~client_connected
    /\ client_connected' = TRUE
    /\ to_server' = <<>>
    /\ from_server' = <<>>
    /\ UNCHANGED <<cmd_lock, index_generator, wpc, request_id, last_call,
                   last_sent>>

\* DreamCsc.disconnect sets self.model = None and the next DreamCsc.connect
\* makes a new DreamModel: a new lock and a new index generator.  The loop
\* tasks have been cancelled and awaited before.
NewModel ==
    /\ ~client_connected
    /\ \A c \in Callers : wpc[c] = "idle"
    /\ index_generator # 1
    /\ index_generator' = 1
    /\ cmd_lock' = NoTask
    /\ UNCHANGED <<client_connected, wpc, request_id, last_call, to_server,
                   from_server, last_sent>>

(***************************************************************************)
(* The link supervisor: DreamCsc.                                          *)
(***************************************************************************)

SAL_TIMEOUT == 120
CSC_RESET_SLEEP_TIME == 180
RECONNECT_TIMEOUT == 180
MAXIMUM_RECONNECT_WAIT == 60
BASE_RECONNECT_WAIT == 10

\* The tasks.  A health monitor, a weather/status loop and a data-product
\* loop are asyncio tasks made by DreamCsc.connect; the command handler is
\* the task in which salobj runs one do_<command> at a time.
Monitors == {<<"H", i>> : i \in 1..MaxMonitors}
WLoops == {<<"W", i>> : i \in 1..MaxLoops}
DLoops == {<<"D", i>> : i \in 1..MaxLoops}
Loops == WLoops \cup DLoops
Cmd == <<"C", 1>>
Tasks == Monitors \cup Loops \cup {Cmd}

\* Where a finished task stands: it returned, it raised, it was cancelled;
\* "free" is a task not made yet.
DonePcs == {"free", "done_ok", "done_exc", "cancelled"}

\* Task.done()
IsDone(t) == t = NoTask \/ pc[t] \in DonePcs

\* Task.exception() raises CancelledError for a cancelled task.
IsCancelled(t) == t # NoTask /\ pc[t] = "cancelled"

\* DreamCsc.connected
connected == model = "present" /\ client_connected

\* The program holds a reference to task t: in one of the three task
\* handles, or in an await.
Referenced(t) ==
    \/ t \in {weather_and_status_loop_task, data_product_loop_task,
               health_monitor_loop_task}
    \/ \E x \in Tasks : t \in awaiting[x]

\* The finished tasks nothing refers to: nothing can read their outcome.
Garbage ==
    {t \in Tasks : pc[t] \in DonePcs \ {"free"} /\ ~Referenced(t)}

\* No task is in the middle of a run: the event loop picks the next one.
Idle ==
    /\ running = NoTask
    /\ \A t \in Tasks : pc[t] \in DonePcs \ {"free"} => Referenced(t)

\* The places where a task waits for a timer or for the network.
TimedPcs == {"reading", "conn_wait", "conn_mock", "disc_roof_read", "roof_read",
             "disc_close", "disc_mock", "watch", "backoff", "sleep",
             "weather", "ess_sleep"}

\* A task awaits tasks that are finished or cancelled (lines 361-363 and
\* 254-260): a cancelled task runs on its next turn, so the await ends
\* within a few turns of the event loop, before a timer or the network
\* wakes any task.  (A health monitor that suppressed its own cancellation
\* at line 364 is no longer cancelled, and an await of it is not prompt.)
Prompt ==
    \E t \in Tasks :
        /\ pc[t] \in {"stop_hm", "disc_gather"}
        /\ \A u \in awaiting[t] : pc[u] \in DonePcs \/ must_cancel[u]

\* A suspended task the event loop may resume normally: a pending
\* cancellation is delivered instead (see Cancelled).
Resumable(t, at) ==
    /\ pc[t] = at
    /\ ~must_cancel[t]
    /\ (at \in TimedPcs => ~Prompt)
    /\ Idle

\* The task the event loop is running stands at this line.
At(t, at) == running = t /\ pc[t] = at

\* A disconnect() that never closes the roof.
MutCloseRoof(t) == FALSE

\* disconnect()'s parameter close_roof: False only in the health monitor's
\* call (line 309).
CloseRoof(t) == ctx[t] # "hm_disc"

\* The places where a task is suspended inside a method of the DreamModel.
InModelPcs == {"acquire", "reading", "conn_acquire", "conn_wait",
               "disc_roof_acquire", "disc_roof_read", "roof_acquire",
               "roof_read"}

\* asyncio.Lock is first come, first served: "async with" enters without
\* suspending only if the lock is free and no task waits for it.
CanTake(lk) ==
    /\ lk = NoTask
    /\ \A t \in Tasks :
          pc[t] \in {"acquire", "conn_acquire", "disc_roof_acquire",
                      "roof_acquire"}
          => detached[t]

\* The places where a task is suspended.
SuspendedPcs == InModelPcs \cup
    {"watch", "sleep", "weather", "ess_sleep", "ack", "stop_hm",
     "disc_gather", "disc_close", "disc_mock", "conn_mock", "backoff"}

\* A task slot connect() may use for a new task: a finished task nobody
\* is waiting for.
Unused(S) == {t \in S : pc[t] \in DonePcs /\ \A x \in Tasks : t \notin awaiting[x]}

NewTask(S) == CHOOSE t \in Unused(S) : \A u \in Unused(S) : t[2] <= u[2]

\* sleep_time = min(MAXIMUM_RECONNECT_WAIT,
\*                  BASE_RECONNECT_WAIT * 2 ** (attempt_number - 1))
MutSleepTime(n) ==
    IF BASE_RECONNECT_WAIT * 2 ^ n < MAXIMUM_RECONNECT_WAIT
    THEN BASE_RECONNECT_WAIT * 2 ^ n
    ELSE MAXIMUM_RECONNECT_WAIT

SleepTime(n) ==
    IF BASE_RECONNECT_WAIT * 2 ^ (n - 1) < MAXIMUM_RECONNECT_WAIT
    THEN BASE_RECONNECT_WAIT * 2 ^ (n - 1)
    ELSE MAXIMUM_RECONNECT_WAIT

\* The state after DreamCsc.__init__ (and DreamModel.__init__ for the
\* protocol client's variables): no configuration, no model, every task
\* handle a finished future.
InitCsc ==
    /\ run_data_product_loop \in BOOLEAN
    /\ own_mock \in BOOLEAN
    /\ config = "none"
    /\ roof = FALSE
    /\ summary_state = "STANDBY"
    /\ model = "none"
    /\ mock = FALSE
    /\ weather_and_status_loop_task = NoTask
    /\ data_product_loop_task = NoTask
    /\ health_monitor_loop_task = NoTask
    /\ running = NoTask
    /\ pc = [t \in Tasks |-> IF t = Cmd THEN "idle" ELSE "free"]
    /\ ctx = [t \in Tasks |-> "none"]
    /\ must_cancel = [t \in Tasks |-> FALSE]
    /\ awaiting = [t \in Tasks |-> {}]
    /\ detached = [t \in Tasks |-> FALSE]
    /\ attempt_number = [h \in Monitors |-> 0]
    /\ elapsed = [h \in Monitors |-> 0]
    /\ connect_calls = [h \in Monitors |-> 0]
    /\ waits = [h \in Monitors |-> <<>>]
    /\ fault_calls = [h \in Monitors |-> 0]
    /\ reported = [h \in Monitors |-> 0]
    /\ last_op = "none"
    /\ commands = 0
    /\ drops = 0

\* ---- connect() ------------------------------------------------------

\* Lines 122-150: the already-connected and configuration checks; with an
\* own mock, the mock is made and its start awaited.
TConn(x) ==
    /\ At(x, "t_conn")
    /\ connect_calls' = [h \in Monitors |->
                            IF h = x THEN connect_calls[h] + 1
                            ELSE connect_calls[h]]
    /\ IF connected
       THEN /\ pc' = [pc EXCEPT ![x] = "t_conn_raise_ac"]
            /\ UNCHANGED <<mock, running>>
       ELSE IF config = "none"
       THEN /\ pc' = [pc EXCEPT ![x] = "t_conn_raise"]
            /\ UNCHANGED <<mock, running>>
       ELSE IF own_mock
       THEN /\ mock' = TRUE
            /\ pc' = [pc EXCEPT ![x] = "conn_mock"]
            /\ running' = NoTask
       ELSE /\ pc' = [pc EXCEPT ![x] = "t_conn_model"]
            /\ UNCHANGED <<mock, running>>
    /\ UNCHANGED <<client_connected, cmd_lock, config, roof, summary_state, model,
                   handles, ctx, must_cancel, awaiting, detached,
                   attempt_number, elapsed, waits, fault_calls, reported,
                   last_op>>

\* "await self.mock.start_task" returns, and line 146 reads self.mock.port:
\* an AttributeError if self.mock is None by now.
ConnMockStarted(x) ==
    /\ Resumable(x, "conn_mock")
    /\ pc' = [pc EXCEPT ![x] = IF mock THEN "t_conn_model" ELSE "t_conn_raise"]
    /\ running' = x
    /\ UNCHANGED <<client_connected, cmd_lock, config, roof, summary_state, model,
                   mock, handles, ctx, must_cancel, awaiting, detached,
                   hmvars, last_op>>

\* Lines 152-154: a DreamModel is made if there is none, and
\* DreamModel.connect runs to its first suspension: it takes the lock and
\* replaces self.client by a new, unconnected client, or waits for the
\* lock.
TConnModel(x) ==
    /\ At(x, "t_conn_model")
    /\ model' = "present"
    /\ running' = NoTask
    /\ IF CanTake(cmd_lock)
       THEN /\ cmd_lock' = x
            /\ client_connected' = FALSE
            /\ pc' = [pc EXCEPT ![x] = "conn_wait"]
       ELSE /\ pc' = [pc EXCEPT ![x] = "conn_acquire"]
            /\ UNCHANGED <<client_connected, cmd_lock>>
    /\ UNCHANGED <<config, roof, summary_state, mock, handles, ctx, must_cancel,
                   awaiting, detached, hmvars, last_op>>

\* DreamModel.connect gets the lock it waited for.  A task inside a
\* DreamModel that is no longer self.model works on that model's lock
\* and client.
ConnAcquired(x) ==
    /\ Resumable(x, "conn_acquire")
    /\ detached[x] \/ LockFree
    /\ pc' = [pc EXCEPT ![x] = "conn_wait"]
    /\ IF detached[x]
       THEN UNCHANGED <<client_connected, cmd_lock>>
       ELSE /\ cmd_lock' = x
            /\ client_connected' = FALSE
    /\ UNCHANGED <<config, roof, summary_state, model, mock, handles, running, ctx,
                   must_cancel, awaiting, detached, hmvars, last_op>>

\* Lines 156-161: the three tasks connect() makes.  A new health monitor
\* starts with fresh locals.
MutSpawn(x, w, h, d) ==
    /\ pc' = [pc EXCEPT ![x] = "t_conn_ret", ![w] = "sleep", ![h] = "watch",
                        ![d] = "sleep"]
    /\ ctx' = [ctx EXCEPT ![w] = "none", ![h] = "none", ![d] = "none"]
    /\ weather_and_status_loop_task' = w
    /\ health_monitor_loop_task' = h
    /\ data_product_loop_task' = d
    /\ attempt_number' = [attempt_number EXCEPT ![h] = 0]
    /\ elapsed' = [elapsed EXCEPT ![h] = 0]
    /\ connect_calls' = [connect_calls EXCEPT ![h] = 0]
    /\ waits' = [waits EXCEPT ![h] = <<>>]
    /\ fault_calls' = [fault_calls EXCEPT ![h] = 0]
    /\ reported' = [reported EXCEPT ![h] = 0]

Spawn(x, w, h, d) ==
    /\ pc' = [pc EXCEPT ![x] = "t_conn_ret", ![w] = "sleep", ![h] = "watch",
                        ![d] = IF run_data_product_loop THEN "sleep" ELSE @]
    /\ ctx' = [ctx EXCEPT ![w] = "none", ![h] = "none", ![d] = "none"]
    /\ weather_and_status_loop_task' = w
    /\ health_monitor_loop_task' = h
    /\ data_product_loop_task' =
          IF run_data_product_loop THEN d ELSE data_product_loop_task
    /\ attempt_number' = [attempt_number EXCEPT ![h] = 0]
    /\ elapsed' = [elapsed EXCEPT ![h] = 0]
    /\ connect_calls' = [connect_calls EXCEPT ![h] = 0]
    /\ waits' = [waits EXCEPT ![h] = <<>>]
    /\ fault_calls' = [fault_calls EXCEPT ![h] = 0]
    /\ reported' = [reported EXCEPT ![h] = 0]

\* "await asyncio.wait_for(self.client.start_task, ...)" ends: the
\* controller accepted the connection and connect() goes on to make its
\* tasks, or the connection was refused or timed out and connect() raises.
\* A refusal comes at once: the time since reconnect_time advances in
\* the backoff sleeps only.
ConnDone(x) ==
    /\ Resumable(x, "conn_wait")
    /\ running' = x
    /\ detached' = [detached EXCEPT ![x] = FALSE]
    /\ cmd_lock' = Release(x)
    /\ \/ /\ Unused(WLoops) # {} /\ Unused(Monitors) # {} /\ Unused(DLoops) # {}
          /\ client_connected' = IF detached[x] THEN client_connected ELSE TRUE
          /\ Spawn(x, NewTask(WLoops), NewTask(Monitors), NewTask(DLoops))
       \/ /\ pc' = [pc EXCEPT ![x] = "t_conn_raise"]
          /\ UNCHANGED <<client_connected, handles, ctx, hmvars>>
    /\ UNCHANGED <<config, roof, summary_state, model, mock, must_cancel, awaiting,
                   last_op>>

\* connect() returns to its caller: end_start and do_resume finish the
\* command, the health monitor returns (line 320).
TConnRet(x) ==
    /\ At(x, "t_conn_ret")
    /\ last_op' = "connect"
    /\ running' = NoTask
    /\ pc' = [pc EXCEPT ![x] = IF x = Cmd THEN "idle" ELSE "done_ok"]
    /\ ctx' = [ctx EXCEPT ![x] = "none"]
    /\ UNCHANGED <<client_connected, cmd_lock, config, roof, summary_state, model,
                   mock, handles, must_cancel, awaiting, detached, hmvars>>

\* connect() raises.  do_resume fails; end_start (lines 182-188) calls
\* fault; the health monitor (lines 321-327) computes the backoff and
\* sleeps.  fault() sets the summary state and runs handle_summary_state,
\* which stops the health monitor and disconnects.
TConnRaise(x) ==
    /\ running = x
    /\ pc[x] \in {"t_conn_raise", "t_conn_raise_ac"}
    /\ IF ctx[x] = "resume"
       THEN /\ pc' = [pc EXCEPT ![x] = "idle"]
            /\ ctx' = [ctx EXCEPT ![x] = "none"]
            /\ running' = NoTask
            /\ UNCHANGED <<summary_state, waits>>
       ELSE IF ctx[x] = "start"
       THEN /\ summary_state' = "FAULT"
            /\ pc' = [pc EXCEPT ![x] = "t_stop"]
            /\ ctx' = [ctx EXCEPT ![x] = "start_fault"]
            /\ UNCHANGED <<running, waits>>
       ELSE /\ waits' = [waits EXCEPT
                            ![x] = Append(@, SleepTime(attempt_number[x]))]
            /\ pc' = [pc EXCEPT ![x] = "backoff"]
            /\ running' = NoTask
            /\ UNCHANGED <<summary_state, ctx>>
    /\ UNCHANGED <<client_connected, cmd_lock, config, roof, model, mock, handles,
                   must_cancel, awaiting, detached, attempt_number, elapsed,
                   connect_calls, fault_calls, reported, last_op>>

\* ---- stop_health_monitor_and_disconnect() and disconnect() -----------

\* Task.cancel(): a request that is delivered when the task next runs; it
\* does nothing to a finished task.
CancelAll(S) ==
    must_cancel' = [t \in Tasks |->
                       must_cancel[t] \/ (t \in S /\ ~IsDone(t))]

\* Lines 361-365: the health monitor is cancelled and awaited.  Awaiting a
\* finished task does not suspend.
TStop(x) ==
    /\ At(x, "t_stop")
    /\ LET h == health_monitor_loop_task
       IN IF IsDone(h)
          THEN /\ pc' = [pc EXCEPT ![x] = "t_disc"]
               /\ UNCHANGED <<running, must_cancel, awaiting>>
          ELSE /\ CancelAll({h})
               /\ awaiting' = [awaiting EXCEPT ![x] = {h}]
               /\ pc' = [pc EXCEPT ![x] = "stop_hm"]
               /\ running' = NoTask
    /\ UNCHANGED <<client_connected, cmd_lock, config, roof, summary_state, model,
                   mock, handles, ctx, detached, hmvars, last_op>>

\* The awaited health monitor is finished.  A cancelled one raises
\* CancelledError in the awaiter, which line 364 suppresses; another
\* exception of the health monitor propagates.
StopWaited(x) ==
    /\ Resumable(x, "stop_hm")
    /\ \A h \in awaiting[x] : IsDone(h)
    /\ awaiting' = [awaiting EXCEPT ![x] = {}]
    /\ running' = x
    /\ pc' = [pc EXCEPT ![x] = IF \E h \in awaiting[x] : pc[h] = "done_exc"
                               THEN "t_disc_raise" ELSE "t_disc"]
    /\ UNCHANGED <<client_connected, cmd_lock, config, roof, summary_state, model,
                   mock, handles, ctx, must_cancel, detached, hmvars,
                   last_op>>

\* A task that gathers itself: disconnect() run by the weather loop, from
\* its call of fault(), cancels the loop task and awaits it in gather()
\* (lines 253-260).  In asyncio the cancel() of the task and the cancel()
\* of the gather future it waits for call each other without end: the
\* step of the task ends in RecursionError, raised into the event loop,
\* and the task stays pending; a later cancel() of the task raises
\* RecursionError in its caller.
Entangled(t) == t # NoTask /\ pc[t] = "disc_gather" /\ t \in awaiting[t]

\* Lines 248-260: both loop tasks are cancelled and gathered.  gather()
\* always suspends its caller.
TDisc(x) ==
    /\ At(x, "t_disc")
    /\ IF config = "none" \/ Entangled(weather_and_status_loop_task)
       THEN /\ pc' = [pc EXCEPT ![x] = "t_disc_raise"]
            /\ UNCHANGED <<running, must_cancel, awaiting>>
       ELSE LET both == {weather_and_status_loop_task,
                         data_product_loop_task} \ {NoTask}
            IN /\ CancelAll(both)
               /\ awaiting' = [awaiting EXCEPT ![x] = both]
               /\ pc' = [pc EXCEPT ![x] = "disc_gather"]
               /\ running' = NoTask
    /\ UNCHANGED <<client_connected, cmd_lock, config, roof, summary_state, model,
                   mock, handles, ctx, detached, hmvars, last_op>>

\* Line 268, "await self.model.disconnect()": self.model is read again;
\* DreamModel.disconnect closes the client, without taking the lock.
CloseClient(x) ==
    IF model = "none"
    THEN /\ pc' = [pc EXCEPT ![x] = "t_disc_raise"]
         /\ running' = x
         /\ UNCHANGED client_connected
    ELSE /\ client_connected' = FALSE
         /\ pc' = [pc EXCEPT ![x] = "disc_close"]
         /\ running' = NoTask

\* Lines 262-268 to the first suspension: with close_roof, the setRoof
\* request is written under the lock (a "Not connected" error is
\* suppressed at line 266); then the client is closed.
DiscGathered(x) ==
    /\ Resumable(x, "disc_gather")
    /\ \A t \in awaiting[x] : IsDone(t)
    /\ awaiting' = [awaiting EXCEPT ![x] = {}]
    /\ IF model = "none"
       THEN /\ pc' = [pc EXCEPT ![x] = "t_disc_tail"]
            /\ running' = x
            /\ UNCHANGED <<client_connected, cmd_lock>>
       ELSE IF CloseRoof(x) /\ client_connected
       THEN /\ running' = NoTask
            /\ UNCHANGED client_connected
            /\ IF CanTake(cmd_lock)
               THEN /\ cmd_lock' = x
                    /\ pc' = [pc EXCEPT ![x] = "disc_roof_read"]
               ELSE /\ pc' = [pc EXCEPT ![x] = "disc_roof_acquire"]
                    /\ UNCHANGED cmd_lock
       ELSE /\ CloseClient(x)
            /\ UNCHANGED cmd_lock
    /\ roof' = IF pc'[x] = "disc_roof_read" THEN FALSE ELSE roof
    /\ UNCHANGED <<config, summary_state, model, mock, handles, ctx,
                   must_cancel, detached, hmvars, last_op>>

\* close_roof() gets the lock it waited for and writes its request; on a
\* closed client the write raises, which line 266 suppresses.
DiscRoofAcquired(x) ==
    /\ Resumable(x, "disc_roof_acquire")
    /\ detached[x] \/ LockFree
    /\ detached' = [detached EXCEPT ![x] = FALSE]
    /\ IF ~detached[x] /\ client_connected
       THEN /\ cmd_lock' = x
            /\ pc' = [pc EXCEPT ![x] = "disc_roof_read"]
            /\ roof' = FALSE
            /\ UNCHANGED <<client_connected, running>>
       ELSE /\ CloseClient(x)
            /\ UNCHANGED <<cmd_lock, roof>>
    /\ UNCHANGED <<config, summary_state, model, mock, handles, ctx,
                   must_cancel, awaiting, hmvars, last_op>>

\* close_roof() ends, with the reply or with an error that line 266
\* suppresses; the lock is released; then the client is closed.
DiscRoofDone(x) ==
    /\ Resumable(x, "disc_roof_read")
    /\ cmd_lock' = Release(x)
    /\ detached' = [detached EXCEPT ![x] = FALSE]
    /\ CloseClient(x)
    /\ UNCHANGED <<config, roof, summary_state, model, mock, handles, ctx,
                   must_cancel, awaiting, hmvars, last_op>>

\* "await self.client.close()" returns.
DiscClosed(x) ==
    /\ Resumable(x, "disc_close")
    /\ pc' = [pc EXCEPT ![x] = "t_disc_tail"]
    /\ running' = x
    /\ UNCHANGED <<client_connected, cmd_lock, config, roof, summary_state, model,
                   mock, handles, ctx, must_cancel, awaiting, detached,
                   hmvars, last_op>>

\* Lines 269-272: self.model = None; the tasks suspended inside the old
\* DreamModel stay with its lock and client, and the next DreamModel has a
\* free lock and an unconnected client.  An own mock is closed.
TDiscTail(x) ==
    /\ At(x, "t_disc_tail")
    /\ model' = "none"
    /\ client_connected' = FALSE
    /\ cmd_lock' = NoTask
    /\ detached' = [t \in Tasks |->
                       detached[t] \/ (model = "present" /\ pc[t] \in InModelPcs)]
    /\ IF mock
       THEN /\ pc' = [pc EXCEPT ![x] = "disc_mock"]
            /\ running' = NoTask
       ELSE /\ pc' = [pc EXCEPT ![x] = "t_disc_ret"]
            /\ UNCHANGED running
    /\ UNCHANGED <<config, roof, summary_state, mock, handles, ctx, must_cancel,
                   awaiting, hmvars, last_op>>

\* "await self.mock.close()" returns; self.mock = None.
DiscMockClosed(x) ==
    /\ Resumable(x, "disc_mock")
    /\ mock' = FALSE
    /\ pc' = [pc EXCEPT ![x] = "t_disc_ret"]
    /\ running' = x
    /\ UNCHANGED <<client_connected, cmd_lock, config, roof, summary_state, model,
                   handles, ctx, must_cancel, awaiting, detached, hmvars,
                   last_op>>

\* disconnect() returns to its caller: begin_standby lets the state change
\* to STANDBY, do_pause and fault() finish, the health monitor goes on to
\* its reconnect loop (line 310), a task that called fault() returns.
TDiscRet(x) ==
    /\ At(x, "t_disc_ret")
    /\ last_op' = "disconnect"
    /\ summary_state' = IF ctx[x] = "standby" THEN "STANDBY" ELSE summary_state
    /\ IF ctx[x] = "hm_disc"
       THEN /\ pc' = [pc EXCEPT ![x] = "t_hm_loop"]
            /\ UNCHANGED <<running, ctx>>
       ELSE /\ pc' = [pc EXCEPT ![x] = IF x = Cmd THEN "idle" ELSE "done_ok"]
            /\ ctx' = [ctx EXCEPT ![x] = "none"]
            /\ running' = NoTask
    /\ UNCHANGED <<client_connected, cmd_lock, config, roof, model, mock, handles,
                   must_cancel, awaiting, detached, hmvars>>

\* disconnect() or the await of the health monitor raises: the command
\* fails, a health monitor or loop task ends with the exception.
TDiscRaise(x) ==
    /\ At(x, "t_disc_raise")
    /\ pc' = [pc EXCEPT ![x] = IF x = Cmd THEN "idle" ELSE "done_exc"]
    /\ ctx' = [ctx EXCEPT ![x] = "none"]
    /\ running' = NoTask
    /\ UNCHANGED <<client_connected, cmd_lock, config, roof, summary_state, model,
                   mock, handles, must_cancel, awaiting, detached, hmvars,
                   last_op>>

\* A cancelled task runs again: CancelledError is raised at the await it
\* is suspended in.  It unwinds the task, releasing the lock on its way
\* out of "async with"; only the await of the health monitor at line 363
\* suppresses it, and the task goes on to disconnect().
Cancelled(t) ==
    /\ must_cancel[t]
    /\ pc[t] \in SuspendedPcs
    /\ ~Entangled(t)
    /\ Idle
    /\ must_cancel' = [must_cancel EXCEPT ![t] = FALSE]
    /\ awaiting' = [awaiting EXCEPT ![t] = {}]
    /\ IF pc[t] = "stop_hm"
       THEN /\ pc' = [pc EXCEPT ![t] = "t_disc"]
            /\ running' = t
            /\ UNCHANGED <<cmd_lock, ctx, detached>>
       ELSE /\ pc' = [pc EXCEPT ![t] = "cancelled"]
            /\ ctx' = [ctx EXCEPT ![t] = "none"]
            /\ cmd_lock' = Release(t)
            /\ detached' = [detached EXCEPT ![t] = FALSE]
            /\ UNCHANGED running
    /\ UNCHANGED <<client_connected, config, roof, summary_state, model, mock,
                   handles, hmvars, last_op>>

\* ---- health_monitor() ------------------------------------------------

\* The attempt count in the report of line 332.
MutAttemptsReported(h) == attempt_number[h] - 1

AttemptsReported(h) == attempt_number[h]

\* The condition of the reconnect loop (lines 311-314).
Retry(h) == elapsed[h] < RECONNECT_TIMEOUT /\ summary_state # "FAULT"

\* Lines 291 and 299: a loop task the health monitor needs is done.
MutTrips == IsDone(weather_and_status_loop_task)

Trips ==
    \/ IsDone(weather_and_status_loop_task)
    \/ run_data_product_loop /\ IsDone(data_product_loop_task)

\* Lines 290-309, one poll of the watch loop that finds a finished loop
\* task: Task.exception() raises CancelledError for a cancelled task, and
\* otherwise the monitor notes reconnect_time and calls
\* disconnect(close_roof=False).  (A poll that finds both tasks running
\* sleeps again and changes nothing.)
HMPoll(h) ==
    /\ Resumable(h, "watch")
    /\ LET w == weather_and_status_loop_task
           d == data_product_loop_task
           tripped == IF IsDone(w) THEN w ELSE d
       IN /\ Trips
          /\ IF IsCancelled(tripped)
             THEN /\ pc' = [pc EXCEPT ![h] = "cancelled"]
                  /\ UNCHANGED <<running, ctx, elapsed>>
             ELSE /\ pc' = [pc EXCEPT ![h] = "t_disc"]
                  /\ ctx' = [ctx EXCEPT ![h] = "hm_disc"]
                  /\ elapsed' = [elapsed EXCEPT ![h] = 0]
                  /\ running' = h
    /\ UNCHANGED <<client_connected, cmd_lock, config, roof, summary_state, model,
                   mock, handles, must_cancel, awaiting, detached,
                   attempt_number, connect_calls, waits, fault_calls,
                   reported, last_op>>

\* Lines 311-318 and 329-333: the head of the reconnect loop.  Another
\* attempt is counted and connect() called, or fault() is called with the
\* attempt count; fault() sets the summary state and runs
\* handle_summary_state, which stops the health monitor and disconnects.
THMLoop(h) ==
    /\ At(h, "t_hm_loop")
    /\ IF Retry(h)
       THEN /\ attempt_number[h] < MaxAttempt
            /\ attempt_number' = [attempt_number EXCEPT ![h] = @ + 1]
            /\ ctx' = [ctx EXCEPT ![h] = "hm_conn"]
            /\ pc' = [pc EXCEPT ![h] = "t_conn"]
            /\ UNCHANGED <<summary_state, fault_calls, reported>>
       ELSE /\ fault_calls' = [fault_calls EXCEPT ![h] = @ + 1]
            /\ reported' = [reported EXCEPT ![h] = AttemptsReported(h)]
            /\ summary_state' = "FAULT"
            /\ ctx' = [ctx EXCEPT ![h] = "hm_fault"]
            /\ pc' = [pc EXCEPT ![h] = "t_stop"]
            /\ UNCHANGED attempt_number
    /\ UNCHANGED <<client_connected, cmd_lock, config, roof, model, mock, handles,
                   running, must_cancel, awaiting, detached, elapsed,
                   connect_calls, waits, last_op>>

\* The time that passes in the backoff sleep of line 327: sleep_time.
MutPassed(h) == 0

Passed(h) == waits[h][Len(waits[h])]

\* Line 327: the backoff sleep is over; sleep_time has passed.
HMBackoffDone(h) ==
    /\ Resumable(h, "backoff")
    /\ elapsed' = [elapsed EXCEPT ![h] = @ + Passed(h)]
    /\ pc' = [pc EXCEPT ![h] = "t_hm_loop"]
    /\ running' = h
    /\ UNCHANGED <<client_connected, cmd_lock, config, roof, summary_state, model,
                   mock, handles, ctx, must_cancel, awaiting, detached,
                   attempt_number, connect_calls, waits, fault_calls,
                   reported, last_op>>

\* ---- the polling loops -------------------------------------------------

\* A loop task calls a request method of self.model, with the lock in
\* state lk: an AttributeError if self.model is None, "Not connected" on a
\* closed client; else DreamModel.write takes the lock and writes the
\* request, or waits for the lock.  Neither loop catches the error.
LoopRequest(l, op, lk) ==
    IF ~connected
    THEN /\ pc' = [pc EXCEPT ![l] = "done_exc"]
         /\ ctx' = [ctx EXCEPT ![l] = "none"]
         /\ cmd_lock' = lk
    ELSE /\ ctx' = [ctx EXCEPT ![l] = op]
         /\ IF CanTake(lk)
            THEN /\ cmd_lock' = l
                 /\ pc' = [pc EXCEPT ![l] = "reading"]
            ELSE /\ cmd_lock' = lk
                 /\ pc' = [pc EXCEPT ![l] = "acquire"]

\* A loop task wakes from its sleep and tests its while condition (lines
\* 383 and 426): not connected, it returns; the data-product loop sends
\* getNewDataProducts, the weather loop reads the weather from the ESS.
LoopWake(l) ==
    /\ Resumable(l, "sleep")
    /\ IF ~connected
       THEN /\ pc' = [pc EXCEPT ![l] = "done_ok"]
            /\ UNCHANGED <<cmd_lock, ctx>>
       ELSE IF l \in WLoops
       THEN /\ pc' = [pc EXCEPT ![l] = "weather"]
            /\ UNCHANGED <<cmd_lock, ctx>>
       ELSE LoopRequest(l, "getNewDataProducts", cmd_lock)
    /\ UNCHANGED <<client_connected, config, roof, summary_state, model, mock,
                   handles, running, must_cancel, awaiting, detached, hmvars,
                   last_op>>

\* Lines 429-525: the weather was read and the flag is sent with
\* setWeather (the loop returns if self.model is None), or the ESS read
\* failed and the loop sleeps CSC_RESET_SLEEP_TIME.
LoopWeatherDone(l, ok) ==
    /\ Resumable(l, "weather")
    /\ \/ /\ ok
          /\ IF model = "none"
             THEN /\ pc' = [pc EXCEPT ![l] = "done_ok"]
                  /\ UNCHANGED <<cmd_lock, ctx>>
             ELSE LoopRequest(l, "setWeather", cmd_lock)
       \/ /\ ~ok
          /\ pc' = [pc EXCEPT ![l] = "ess_sleep"]
          /\ UNCHANGED <<cmd_lock, ctx>>
    /\ UNCHANGED <<client_connected, config, roof, summary_state, model, mock,
                   handles, running, must_cancel, awaiting, detached, hmvars,
                   last_op>>

\* Lines 498-511: after the sleep the loop tries again, or, its ESS
\* retries used up, calls fault() and returns.
LoopEssSleepDone(l) ==
    /\ Resumable(l, "ess_sleep")
    /\ \/ /\ pc' = [pc EXCEPT ![l] = "sleep"]
          /\ UNCHANGED <<summary_state, running, ctx>>
       \/ /\ summary_state' = "FAULT"
          /\ ctx' = [ctx EXCEPT ![l] = "loop_fault"]
          /\ pc' = [pc EXCEPT ![l] = "t_stop"]
          /\ running' = l
    /\ UNCHANGED <<client_connected, cmd_lock, config, roof, model, mock, handles,
                   must_cancel, awaiting, detached, hmvars, last_op>>

\* A loop task gets the lock it waited for and writes its request.
LoopAcquired(l) ==
    /\ Resumable(l, "acquire")
    /\ detached[l] \/ LockFree
    /\ IF detached[l]
       THEN /\ pc' = [pc EXCEPT ![l] = "reading"]
            /\ UNCHANGED <<cmd_lock, ctx>>
       ELSE IF client_connected
       THEN /\ cmd_lock' = l
            /\ pc' = [pc EXCEPT ![l] = "reading"]
            /\ UNCHANGED ctx
       ELSE /\ pc' = [pc EXCEPT ![l] = "done_exc"]
            /\ ctx' = [ctx EXCEPT ![l] = "none"]
            /\ UNCHANGED cmd_lock
    /\ UNCHANGED <<client_connected, config, roof, summary_state, model, mock,
                   handles, running, must_cancel, awaiting, detached, hmvars,
                   last_op>>

\* The request of a loop task ends and the lock is released.  With a valid
\* reply the weather loop goes on from setWeather to getStatus, and a
\* loop whose cycle is complete sleeps poll_interval; with an error reply,
\* a timeout or a closed connection the loop task ends with the error.
LoopReplied(l, ok) ==
    /\ Resumable(l, "reading")
    /\ detached' = [detached EXCEPT ![l] = FALSE]
    /\ \/ /\ ok
          /\ detached[l] \/ client_connected
          /\ IF ctx[l] = "setWeather"
             THEN LoopRequest(l, "getStatus", Release(l))
             ELSE /\ pc' = [pc EXCEPT ![l] = "sleep"]
                  /\ ctx' = [ctx EXCEPT ![l] = "none"]
                  /\ cmd_lock' = Release(l)
       \/ /\ ~ok \/ (~detached[l] /\ ~client_connected)
          /\ pc' = [pc EXCEPT ![l] = "done_exc"]
          /\ ctx' = [ctx EXCEPT ![l] = "none"]
          /\ cmd_lock' = Release(l)
    /\ UNCHANGED <<client_connected, config, roof, summary_state, model, mock,
                   handles, running, must_cancel, awaiting, hmvars, last_op>>

\* The controller, or the network, drops the connection.
ServerClose ==
    /\ connected
    /\ Idle
    /\ client_connected' = FALSE
    /\ UNCHANGED <<cmd_lock, config, roof, summary_state, model, mock, handles,
                   running, pc, ctx, must_cancel, awaiting, detached, hmvars,
                   last_op>>

\* A finished task nothing refers to is gone, and its locals with it.
Forget ==
    /\ running = NoTask
    /\ Garbage # {}
    /\ pc' = [t \in Tasks |-> IF t \in Garbage THEN "free" ELSE pc[t]]
    /\ attempt_number' = [h \in Monitors |->
                             IF h \in Garbage THEN 0 ELSE attempt_number[h]]
    /\ elapsed' = [h \in Monitors |->
                      IF h \in Garbage THEN 0 ELSE elapsed[h]]
    /\ connect_calls' = [h \in Monitors |->
                            IF h \in Garbage THEN 0 ELSE connect_calls[h]]
    /\ waits' = [h \in Monitors |->
                    IF h \in Garbage THEN <<>> ELSE waits[h]]
    /\ fault_calls' = [h \in Monitors |->
                          IF h \in Garbage THEN 0 ELSE fault_calls[h]]
    /\ reported' = [h \in Monitors |->
                       IF h \in Garbage THEN 0 ELSE reported[h]]
    /\ UNCHANGED <<client_connected, cmd_lock, config, roof, summary_state, model,
                   mock, handles, running, ctx, must_cancel, awaiting,
                   detached, last_op>>

\* ---- the commands --------------------------------------------------------

\* do_start: the configuration is loaded, the state becomes DISABLED and
\* end_start (lines 175-179) runs to its ack_in_progress if there is no
\* connection.
CmdStart ==
    /\ Resumable(Cmd, "idle")
    /\ summary_state = "STANDBY"
    /\ config' = "set"
    /\ summary_state' = "DISABLED"
    /\ IF connected
       THEN UNCHANGED <<pc, ctx>>
       ELSE /\ pc' = [pc EXCEPT ![Cmd] = "ack"]
            /\ ctx' = [ctx EXCEPT ![Cmd] = "start"]
    /\ UNCHANGED <<client_connected, cmd_lock, roof, model, mock, handles,
                   running, must_cancel, awaiting, detached, hmvars, last_op>>

\* do_standby: begin_standby (line 220) runs to its ack_in_progress.
CmdStandby ==
    /\ Resumable(Cmd, "idle")
    /\ summary_state \in {"DISABLED", "FAULT"}
    /\ pc' = [pc EXCEPT ![Cmd] = "ack"]
    /\ ctx' = [ctx EXCEPT ![Cmd] = "standby"]
    /\ UNCHANGED <<client_connected, cmd_lock, config, roof, summary_state, model,
                   mock, handles, running, must_cancel, awaiting, detached,
                   hmvars, last_op>>

\* ack_in_progress returns: end_start calls connect() (line 181),
\* begin_standby calls stop_health_monitor_and_disconnect() (line 221).
CmdAcked ==
    /\ Resumable(Cmd, "ack")
    /\ pc' = [pc EXCEPT ![Cmd] = IF ctx[Cmd] = "start" THEN "t_conn"
                                 ELSE "t_stop"]
    /\ running' = Cmd
    /\ UNCHANGED <<client_connected, cmd_lock, config, roof, summary_state, model,
                   mock, handles, ctx, must_cancel, awaiting, detached,
                   hmvars, last_op>>

\* do_pause (line 358).
CmdPause ==
    /\ Resumable(Cmd, "idle")
    /\ pc' = [pc EXCEPT ![Cmd] = "t_stop"]
    /\ ctx' = [ctx EXCEPT ![Cmd] = "pause"]
    /\ running' = Cmd
    /\ UNCHANGED <<client_connected, cmd_lock, config, roof, summary_state, model,
                   mock, handles, must_cancel, awaiting, detached, hmvars,
                   last_op>>

\* do_resume (lines 370-371); connected, it does nothing.
CmdResume ==
    /\ Resumable(Cmd, "idle")
    /\ ~connected
    /\ pc' = [pc EXCEPT ![Cmd] = "t_conn"]
    /\ ctx' = [ctx EXCEPT ![Cmd] = "resume"]
    /\ running' = Cmd
    /\ UNCHANGED <<client_connected, cmd_lock, config, roof, summary_state, model,
                   mock, handles, must_cancel, awaiting, detached, hmvars,
                   last_op>>

\* DreamModel.open_roof and close_roof (dream_model.py lines 180-184) as
\* end_enable and begin_disable call them, to the first suspension of
\* write(): the lock is free and the setRoof request is written, or the
\* command waits for the lock.
SetRoof(data) ==
    IF CanTake(cmd_lock)
    THEN /\ cmd_lock' = Cmd
         /\ pc' = [pc EXCEPT ![Cmd] = "roof_read"]
         /\ roof' = data
    ELSE /\ pc' = [pc EXCEPT ![Cmd] = "roof_acquire"]
         /\ UNCHANGED <<cmd_lock, roof>>

\* do_enable: the state becomes ENABLED and end_enable (lines 203-206)
\* calls open_roof().  Without a model line 204 raises, without a
\* connection write() does (dream_model.py line 143): the command fails
\* and the state is DISABLED again.
CmdEnable ==
    /\ Resumable(Cmd, "idle")
    /\ summary_state = "DISABLED"
    /\ IF connected
       THEN /\ summary_state' = "ENABLED"
            /\ ctx' = [ctx EXCEPT ![Cmd] = "enable"]
            /\ SetRoof(TRUE)
       ELSE UNCHANGED <<summary_state, ctx, pc, cmd_lock, roof>>
    /\ UNCHANGED <<client_connected, config, model, mock, handles, running,
                   must_cancel, awaiting, detached, hmvars, last_op>>

\* do_disable: begin_disable (lines 234-237) calls close_roof() before the
\* state changes.  Without a model line 235 raises, without a connection
\* write() does: the command fails and the state stays ENABLED.
CmdDisable ==
    /\ Resumable(Cmd, "idle")
    /\ summary_state = "ENABLED"
    /\ IF connected
       THEN /\ ctx' = [ctx EXCEPT ![Cmd] = "disable"]
            /\ SetRoof(FALSE)
       ELSE UNCHANGED <<ctx, pc, cmd_lock, roof>>
    /\ UNCHANGED <<client_connected, config, summary_state, model, mock,
                   handles, running, must_cancel, awaiting, detached, hmvars,
                   last_op>>

\* open_roof() or close_roof() ends for the command: with the reply (ok),
\* and then do_enable is complete, or do_disable changes the state to
\* DISABLED; or with an exception, and then the command fails: the state
\* of a failed do_enable is DISABLED again, that of a failed do_disable
\* stays ENABLED.
RoofEnds(ok) ==
    /\ pc' = [pc EXCEPT ![Cmd] = "idle"]
    /\ ctx' = [ctx EXCEPT ![Cmd] = "none"]
    /\ summary_state' =
          IF summary_state = "ENABLED" /\ (ok <=> ctx[Cmd] = "disable")
          THEN "DISABLED"
          ELSE summary_state

\* The setRoof request of the command gets the lock it waited for and is
\* written; on a closed client the write raises.
RoofAcquired ==
    /\ Resumable(Cmd, "roof_acquire")
    /\ detached[Cmd] \/ LockFree
    /\ detached' = [detached EXCEPT ![Cmd] = FALSE]
    /\ IF ~detached[Cmd] /\ client_connected
       THEN /\ cmd_lock' = Cmd
            /\ pc' = [pc EXCEPT ![Cmd] = "roof_read"]
            /\ roof' = (ctx[Cmd] = "enable")
            /\ UNCHANGED <<summary_state, ctx>>
       ELSE /\ RoofEnds(FALSE)
            /\ UNCHANGED <<cmd_lock, roof>>
    /\ UNCHANGED <<client_connected, config, model, mock, handles, running,
                   must_cancel, awaiting, hmvars, last_op>>

\* The setRoof request of the command ends and the lock is released: with
\* a valid reply, or with an error reply, a timeout or a closed
\* connection.
RoofReplied(ok) ==
    /\ Resumable(Cmd, "roof_read")
    /\ detached' = [detached EXCEPT ![Cmd] = FALSE]
    /\ cmd_lock' = Release(Cmd)
    /\ \/ /\ ok
          /\ detached[Cmd] \/ client_connected
          /\ RoofEnds(TRUE)
       \/ /\ ~ok \/ (~detached[Cmd] /\ ~client_connected)
          /\ RoofEnds(FALSE)
    /\ UNCHANGED <<client_connected, config, roof, model, mock, handles,
                   running, must_cancel, awaiting, hmvars, last_op>>

\* ---- the supervisor's specification -------------------------------------

\* DreamModel.write (line 145) gets the lock it waited for: in a loop
\* task, or in the close_roof() of a disconnect().
WriteAcquired(x) ==
    \/ x \in Loops /\ LoopAcquired(x)
    \/ DiscRoofAcquired(x)

\* What a specification of the supervisor leaves alone.
quiet == <<wonly, cfgvars, envvars, uvars, tvars, mvars, evars, lvars,
           essvars>>

\* A command is issued.
Command(A) ==
    /\ commands < MaxCommands
    /\ commands' = commands + 1
    /\ A
    /\ UNCHANGED <<wonly, cfgvars, uvars, tvars, mvars, evars, lvars, essvars,
                   drops>>

\* The program's surroundings fail it: the connection drops, a request is
\* answered with an error or not in time, a read of the ESS fails.
Trouble(A) ==
    /\ drops < MaxDrops
    /\ drops' = drops + 1
    /\ A
    /\ UNCHANGED <<wonly, cfgvars, uvars, tvars, mvars, evars, lvars, essvars,
                   commands>>

Next ==
    \/ \E x \in Tasks : TConn(x) /\ UNCHANGED quiet
    \/ \E x \in Tasks : ConnMockStarted(x) /\ UNCHANGED quiet
    \/ \E x \in Tasks : TConnModel(x) /\ UNCHANGED quiet
    \/ \E x \in Tasks : ConnAcquired(x) /\ UNCHANGED quiet
    \/ \E x \in Tasks : ConnDone(x) /\ UNCHANGED quiet
    \/ \E x \in Tasks : TConnRet(x) /\ UNCHANGED quiet
    \/ \E x \in Tasks : TConnRaise(x) /\ UNCHANGED quiet
    \/ \E x \in Tasks : TStop(x) /\ UNCHANGED quiet
    \/ \E x \in Tasks : StopWaited(x) /\ UNCHANGED quiet
    \/ \E x \in Tasks : TDisc(x) /\ UNCHANGED quiet
    \/ \E x \in Tasks : DiscGathered(x) /\ UNCHANGED quiet
    \/ \E x \in Tasks : DiscRoofDone(x) /\ UNCHANGED quiet
    \/ \E x \in Tasks : DiscClosed(x) /\ UNCHANGED quiet
    \/ \E x \in Tasks : TDiscTail(x) /\ UNCHANGED quiet
    \/ \E x \in Tasks : DiscMockClosed(x) /\ UNCHANGED quiet
    \/ \E x \in Tasks : TDiscRet(x) /\ UNCHANGED quiet
    \/ \E x \in Tasks : TDiscRaise(x) /\ UNCHANGED quiet
    \/ \E x \in Tasks : Cancelled(x) /\ UNCHANGED quiet
    \/ \E h \in Monitors : HMPoll(h) /\ UNCHANGED quiet
    \/ \E h \in Monitors : THMLoop(h) /\ UNCHANGED quiet
    \/ \E h \in Monitors : HMBackoffDone(h) /\ UNCHANGED quiet
    \/ \E l \in Loops : LoopWake(l) /\ UNCHANGED quiet
    \/ \E x \in Tasks : WriteAcquired(x) /\ UNCHANGED quiet
    \/ \E l \in Loops : LoopReplied(l, TRUE) /\ UNCHANGED quiet
    \/ \E l \in WLoops : LoopWeatherDone(l, TRUE) /\ UNCHANGED quiet
    \/ \E l \in WLoops : LoopEssSleepDone(l) /\ UNCHANGED quiet
    \/ CmdAcked /\ UNCHANGED quiet
    \/ Forget /\ UNCHANGED quiet
    \/ Command(CmdStart)
    \/ Command(CmdStandby)
    \/ Command(CmdPause)
    \/ Command(CmdResume)
    \/ Trouble(ServerClose)
    \/ \E l \in Loops : Trouble(LoopReplied(l, FALSE))
    \/ \E l \in WLoops : Trouble(LoopWeatherDone(l, FALSE))

(***************************************************************************)
(* The data retrieval pipeline: DreamCsc.data_product_loop and             *)
(* DreamCsc.upload_data_product (csc/dream_csc.py).  A data product is     *)
(* modelled by the archive key upload_data_product computes for it.        *)
(***************************************************************************)
Keys == 1..MaxKey

\* The lists get_new_data_products() can return.
ProductLists ==
    UNION {[1..n -> Keys] : n \in 0..MaxProducts}

\* An entry of new_products is modelled by the archive key its fields
\* give and by the way from_dict fails on it, if it does: the entry has no
\* "start" (or "end") key, a time astropy cannot parse, or a set of keys
\* that is not the set of fields of DataProduct.
Defects == {"no_start", "bad_time", "bad_fields"}

Entries ==
    [key : Keys, defect : {"none"}] \cup [key : {1}, defect : Defects]

BadEntries == {e \in Entries : e.defect # "none"}

\* The number of entries of l that from_dict cannot decode.
RECURSIVE BadCount(_)
BadCount(l) ==
    IF l = <<>> THEN 0
    ELSE (IF l[1] \in BadEntries THEN 1 ELSE 0) + BadCount(Tail(l))

EntryLists ==
    {l \in UNION {[1..n -> Entries] : n \in 0..MaxProducts} :
        BadCount(l) <= MaxBadEntries}

\* The replies write() returns to getNewDataProducts (they have the
\* request id and "result": "ok", lines 154-167 of dream_model.py): the
\* message type, and new_products if the reply has it.
MsgTypes == {"list", "status"}

Responses ==
    {r \in [msg_type : MsgTypes, has_new_products : BOOLEAN,
            new_products : EntryLists] :
        /\ ~r.has_new_products => r.new_products = <<>>
        /\ r.msg_type # "list" => BadCount(r.new_products) = 0}

NoList ==
    [msg_type |-> "none", has_new_products |-> FALSE, new_products |-> <<>>]

\* DataProduct.from_dict (dream_model.py lines 55-60): data["start"] and
\* data["end"] are read and handed to Time (lines 58-59), then the
\* dictionary is handed to the constructor as keyword arguments (line 60).
from_dict(data) ==
    CASE data.defect = "no_start"   -> [exc |-> "KeyError", product |-> 0]
      [] data.defect = "bad_time"   -> [exc |-> "ValueError", product |-> 0]
      [] data.defect = "bad_fields" -> [exc |-> "TypeError", product |-> 0]
      [] OTHER                      -> [exc |-> "none", product |-> data.key]

\* A call that returns the list acc where the source raises.
MutRaised(exc, acc) == [exc |-> "none", products |-> acc]

\* An exception leaves get_new_data_products: the caller gets the
\* exception and no list, whatever was decoded before.
Raised(exc, acc) == [exc |-> exc, products |-> <<>>]

\* Line 255: the list comprehension, entry by entry.
RECURSIVE Comprehension(_, _, _)
Comprehension(new_products, i, acc) ==
    IF i > Len(new_products)
    THEN [exc |-> "none", products |-> acc]
    ELSE LET dp == from_dict(new_products[i]) IN
         IF dp.exc # "none"
         THEN Raised(dp.exc, acc)
         ELSE Comprehension(new_products, i + 1, Append(acc, dp.product))

\* DreamModel.get_new_data_products (dream_model.py lines 244-255), from
\* the reply of write() on.
get_new_data_products(r) ==
    IF r.msg_type # "list" THEN Raised("RuntimeError", <<>>)
    ELSE IF ~r.has_new_products THEN Raised("RuntimeError", <<>>)
    ELSE Comprehension(r.new_products, 1, <<>>)

\* The attributes of a data product that upload_data_product branches on
\* (lines 725 and 761), and the value of product outside the for loop.
Products == [tmpdata : BOOLEAN, server_known : BOOLEAN]

NoProduct == [tmpdata |-> FALSE, server_known |-> FALSE]

\* A host that is taken to be configured for every server.
MutKnownHost(p) == TRUE

\* Line 761: the server of the product is a key of
\* config.data_product_host.
KnownHost(p) == p.server_known

\* Lines 725-727: the configuration says to skip temporary files and the
\* filename of the product starts with "/tmpdata/".
MutSkipped(p) == p.tmpdata

Skipped(p) == skip_tmpdata_products /\ p.tmpdata

\* The data product loop before its first poll, under a configuration
\* with skip_tmpdata_products = skip.
InitPipeline(skip) ==
    /\ skip_tmpdata_products = skip
    /\ product = NoProduct
    /\ upc = "poll"
    /\ response = NoList
    /\ data_products = <<>>
    /\ data_product = 1
    /\ s3bucket = {}
    /\ local_disk = {}
    /\ attempts = <<>>
    /\ failed = {}
    /\ fetches = [k \in Keys |-> 0]
    /\ uploads = [k \in Keys |-> 0]
    /\ events = {}
    /\ cycles = 0

\* The pipeline of a CSC whose data product loop does not run.
InitUpload == InitPipeline(FALSE)

\* The key of the product the loop is at.
Key == data_products[data_product]

\* Line 388, after the body of the for loop ended for product i without
\* an exception leaving the loop: the product the loop goes to.
MutNextProduct(i, raised) == IF raised THEN Len(data_products) + 1 ELSE i + 1

NextProduct(i, raised) == i + 1

\* Lines 388-395: the call of upload_data_product for the current product
\* is over, by a return or by an exception, which line 392 catches and
\* line 393 logs.  The loop goes to the next product, or after the last
\* one to the sleep of line 395.
Proceed(raised) ==
    LET n == NextProduct(data_product, raised) IN
    /\ failed' = IF raised THEN failed \cup {data_product} ELSE failed
    /\ data_product' = n
    /\ IF n > Len(data_products)
       THEN upc' = "sleep" /\ product' = NoProduct
       ELSE upc' = "call" /\ product' \in Products

\* Lines 383-388 of dream_csc.py: the loop is connected and write() returned
\* the reply r to getNewDataProducts.  get_new_data_products() decodes it:
\* an exception leaves data_product_loop, which has no handler around the
\* call (line 387), and the task ends; a list is walked by the for loop of
\* line 388.
Poll ==
    /\ upc = "poll"
    /\ cycles < MaxCycles
    /\ \E r \in Responses :
          LET got == get_new_data_products(r) IN
          /\ response' = r
          /\ IF got.exc # "none"
             THEN /\ upc' = "ended"
                  /\ UNCHANGED <<data_products, data_product, product,
                                 attempts, failed>>
             ELSE /\ data_products' = got.products
                  /\ IF got.products = <<>>
                     THEN upc' = "sleep" /\ product' = NoProduct
                     ELSE upc' = "call" /\ product' \in Products
                  /\ data_product' = 1
                  /\ attempts' = <<>>
                  /\ failed' = {}
    /\ UNCHANGED <<skip_tmpdata_products, s3bucket, local_disk, fetches,
                   uploads, events, cycles>>

\* Lines 383-387 and 397-400: the loop finds the model gone or not
\* connected, or get_new_data_products() raises: the task ends.
PollEnds ==
    /\ upc = "poll"
    /\ upc' = "ended"
    /\ UNCHANGED <<skip_tmpdata_products, product, events, response, data_products, data_product, s3bucket, local_disk,
                   attempts, failed, fetches, uploads, cycles>>

\* Lines 391 and 719-754: upload_data_product is called for the current
\* product.  A temporary file the configuration says to skip makes it
\* return at once (line 729); otherwise it builds the key and asks S3
\* whether the key exists.
Call(skip) ==
    /\ upc = "call"
    /\ skip = Skipped(product)
    /\ attempts' = Append(attempts, data_product)
    /\ IF skip
       THEN /\ Proceed(FALSE)
       ELSE /\ upc' = "exists"
            /\ UNCHANGED <<data_product, failed, product>>
    /\ UNCHANGED <<skip_tmpdata_products, events, response, data_products, s3bucket, local_disk, fetches, uploads,
                   cycles>>

\* Lines 754-771: the answer of S3 is there.  If the key exists this is
\* logged (lines 755-757), and in both cases the call goes on: it checks
\* the server of the product (line 761) and sends the first HTTP request.
Exists(server_known) ==
    /\ upc = "exists"
    /\ server_known = KnownHost(product)
    /\ IF server_known
       THEN /\ upc' = "head"
            /\ fetches' = [fetches EXCEPT ![Key] = @ + 1]
            /\ UNCHANGED <<data_product, failed, product>>
       ELSE /\ Proceed(TRUE)
            /\ UNCHANGED fetches
    /\ UNCHANGED <<skip_tmpdata_products, events, response, data_products, s3bucket, local_disk, attempts, uploads,
                   cycles>>

\* Line 754: the request to S3 fails and s3bucket.exists raises; nothing
\* in upload_data_product catches it.
ExistsRaises ==
    /\ upc = "exists"
    /\ Proceed(TRUE)
    /\ UNCHANGED <<skip_tmpdata_products, events, response, data_products,
                   s3bucket, local_disk, attempts, fetches, uploads, cycles>>

\* Lines 771-775: the first response is there; raise_for_status raises,
\* or the file is requested as a stream.
HttpHead(ok) ==
    /\ upc = "head"
    /\ IF ok
       THEN /\ upc' = "stream"
            /\ UNCHANGED <<data_product, failed, product>>
       ELSE Proceed(TRUE)
    /\ UNCHANGED <<skip_tmpdata_products, events, response, data_products, s3bucket, local_disk, attempts, fetches,
                   uploads, cycles>>

\* Lines 775-780: the stream is open; raise_for_status raises, or
\* save_to_s3 starts.
Stream(ok) ==
    /\ upc = "stream"
    /\ IF ok
       THEN /\ upc' = "save_to_s3"
            /\ UNCHANGED <<data_product, failed, product>>
       ELSE Proceed(TRUE)
    /\ UNCHANGED <<skip_tmpdata_products, events, response, data_products, s3bucket, local_disk, attempts, fetches,
                   uploads, cycles>>

\* Lines 778-781 and 799-803: save_to_s3 reads the body and uploads it
\* under the key, or one of the two raises, the except clause of line 782
\* logs it and save_to_local_disk starts (line 786).
SaveToS3(ok) ==
    /\ upc = "save_to_s3"
    /\ IF ok
       THEN /\ s3bucket' = s3bucket \cup {Key}
            /\ uploads' = [uploads EXCEPT ![Key] = @ + 1]
            /\ upc' = "set_write"
       ELSE /\ upc' = "save_to_local_disk"
            /\ UNCHANGED <<s3bucket, uploads>>
    /\ UNCHANGED <<skip_tmpdata_products, product, events, response, data_products, data_product, failed,
                   local_disk, attempts, fetches, cycles>>

\* Lines 804-811 and 781-786: after the upload save_to_s3 writes the
\* largeFileObjectAvailable event with the URL of the object and the call
\* returns (line 781); or the write of the event raises, inside the same
\* try block, and save_to_local_disk starts.
SetWrite(ok) ==
    /\ upc = "set_write"
    /\ IF ok
       THEN /\ events' = events \cup {Key}
            /\ Proceed(FALSE)
       ELSE /\ upc' = "save_to_local_disk"
            /\ UNCHANGED <<events, data_product, failed, product>>
    /\ UNCHANGED <<skip_tmpdata_products, response, data_products, s3bucket, local_disk, attempts,
                   fetches, uploads, cycles>>

\* Lines 786 and 824-841: save_to_local_disk writes the file and the
\* call returns, or it raises and so does the call.
SaveToLocalDisk(ok) ==
    /\ upc = "save_to_local_disk"
    /\ IF ok
       THEN /\ local_disk' = local_disk \cup {Key}
            /\ Proceed(FALSE)
       ELSE /\ Proceed(TRUE)
            /\ UNCHANGED local_disk
    /\ UNCHANGED <<skip_tmpdata_products, events, response, data_products, s3bucket, attempts, fetches, uploads,
                   cycles>>

\* Line 395: the sleep of poll_interval is over.
Sleep ==
    /\ upc = "sleep"
    /\ upc' = "poll"
    /\ cycles' = cycles + 1
    /\ UNCHANGED <<skip_tmpdata_products, product, events, response, data_products, data_product, s3bucket, local_disk,
                   attempts, failed, fetches, uploads>>

still == <<wvars, cscvars, tvars, mvars, evars, lvars, essvars>>

NextUpload ==
    \/ Poll /\ UNCHANGED still
    \/ PollEnds /\ UNCHANGED still
    \/ Call(TRUE) /\ UNCHANGED still
    \/ Call(FALSE) /\ UNCHANGED still
    \/ Exists(TRUE) /\ UNCHANGED still
    \/ Exists(FALSE) /\ UNCHANGED still
    \/ ExistsRaises /\ UNCHANGED still
    \/ HttpHead(TRUE) /\ UNCHANGED still
    \/ HttpHead(FALSE) /\ UNCHANGED still
    \/ Stream(TRUE) /\ UNCHANGED still
    \/ Stream(FALSE) /\ UNCHANGED still
    \/ SaveToS3(TRUE) /\ UNCHANGED still
    \/ SaveToS3(FALSE) /\ UNCHANGED still
    \/ SetWrite(TRUE) /\ UNCHANGED still
    \/ SetWrite(FALSE) /\ UNCHANGED still
    \/ SaveToLocalDisk(TRUE) /\ UNCHANGED still
    \/ SaveToLocalDisk(FALSE) /\ UNCHANGED still
    \/ Sleep /\ UNCHANGED still

(***************************************************************************)
(* The status translation: StatusTopicsBuilder and map_to_bitfield         *)
(* (csc/status_topics_builder.py).  A status document is modelled by the   *)
(* state of each of its sections (there, absent, or there with a value of  *)
(* the wrong type) and by its camera table; the event built for a camera   *)
(* by the number of its field-set.                                         *)
(***************************************************************************)
\* The camera ids of a document, and the field-sets of a camera's event.
CameraIds == {"E", "W"}
FieldSets == 1..MaxFields

\* The sections of a status document the builder functions read.
SectionKeys == {"cameras", "errors", "warnings", "modes", "pdu_status",
                "electronics", "psu_status", "ups_status", "dome_position",
                "temp_hum"}

\* An entry of the camera table: all its fields are there and well formed,
\* one is absent (a KeyError), or last_image_triggertime is not an ISO
\* time (a ValueError of datetime.fromisoformat, line 196).
CameraEntries ==
    [id : CameraIds, state : {"ok"}, fields : FieldSets]
        \cup [id : CameraIds, state : {"missing", "malformed"}, fields : {1}]

CameraTables ==
    {t \in UNION {[1..n -> CameraEntries] : n \in 0..MaxCameras} :
        \A i, j \in DOMAIN t : i # j => t[i].id # t[j].id}

\* The states of the sections of a document: all there and well formed
\* but for a few.
SectionStates ==
    {[k \in SectionKeys |-> IF k \in DOMAIN bad THEN bad[k] ELSE "ok"] :
        bad \in UNION {[B -> {"missing", "malformed"}] :
                          B \in {B \in SUBSET SectionKeys :
                                    Cardinality(B) <= MaxBadKeys}}}

Bad(s, t) ==
    Cardinality({k \in SectionKeys : s[k] # "ok"})
        + Cardinality({i \in DOMAIN t : t[i].state # "ok"})

\* A status document: a table of cameras only if the section is there.
IsDocument(s, t) ==
    /\ Bad(s, t) <= MaxBadKeys
    /\ s["cameras"] # "ok" => t = <<>>

NoStatus == [sections |-> [k \in SectionKeys |-> "ok"], cameras |-> <<>>]

\* The order of builder_functions.
builder_functions ==
    <<"evt_camera", "evt_errors", "evt_status", "evt_powerSupply",
      "evt_temperatureControl", "evt_ups", "tel_camera", "tel_dome",
      "tel_environment", "tel_powerSupply", "tel_ups">>

\* The sections a builder function reads, in the order it reads them.
Reads(f) ==
    CASE f = "evt_camera" -> <<"cameras">>
      [] f = "evt_errors" -> <<"errors">>
      [] f = "evt_status" -> <<"modes", "pdu_status", "electronics",
                               "errors", "warnings">>
      [] f = "evt_powerSupply" -> <<"psu_status">>
      [] f = "evt_temperatureControl" -> <<"electronics">>
      [] f = "evt_ups" -> <<"ups_status", "warnings", "errors">>
      [] f = "tel_camera" -> <<"cameras">>
      [] f = "tel_dome" -> <<"dome_position">>
      [] f = "tel_environment" -> <<"temp_hum">>
      [] f = "tel_powerSupply" -> <<"psu_status">>
      [] f = "tel_ups" -> <<"ups_status">>

\* Reading a section: an absent one raises KeyError; one of the wrong type
\* raises TypeError or AttributeError where the function looks into the
\* value.  get_telemetry_dome copies dome_position as it is.
SectionError(d, k) ==
    IF d.sections[k] = "missing" THEN "KeyError"
    ELSE IF d.sections[k] = "malformed" /\ k # "dome_position"
         THEN "TypeError"
         ELSE "none"

RECURSIVE ReadError(_, _)
ReadError(d, ks) ==
    IF ks = <<>> THEN "none"
    ELSE IF SectionError(d, Head(ks)) # "none"
         THEN SectionError(d, Head(ks))
         ELSE ReadError(d, Tail(ks))

\* A record of a topic, as __call__ returns it.
Sample(f, id, fs) == [topic |-> f, source |-> id, fields |-> fs]

\* The loop of get_events_camera over the camera table: the event is
\* built, appended if the cache has no equal event for the camera, and
\* cached.  An exception leaves the loop with the cache as it stands.
RECURSIVE CameraLoop(_, _, _)
CameraLoop(entries, cache, camera_events) ==
    IF entries = <<>>
    THEN [exc |-> "none", cache |-> cache, events |-> camera_events]
    ELSE LET e == Head(entries)
             new_event == <<e.id, e.fields>>
         IN IF e.state = "missing"
            THEN [exc |-> "KeyError", cache |-> cache, events |-> <<>>]
            ELSE IF e.state = "malformed"
            THEN [exc |-> "ValueError", cache |-> cache, events |-> <<>>]
            ELSE CameraLoop(
                    Tail(entries),
                    {p \in cache : p[1] # e.id} \cup {new_event},
                    IF new_event \notin cache
                    THEN Append(camera_events,
                                Sample("evt_camera", e.id, e.fields))
                    ELSE camera_events)

get_events_camera(d, cache) ==
    IF ReadError(d, Reads("evt_camera")) # "none"
    THEN [exc |-> ReadError(d, Reads("evt_camera")), cache |-> cache,
          events |-> <<>>]
    ELSE CameraLoop(d.cameras, cache, <<>>)

\* One builder function: what it raises, the cache after it, its records.
Build(f, d, cache) ==
    IF f = "evt_camera" THEN get_events_camera(d, cache)
    ELSE [exc |-> ReadError(d, Reads(f)), cache |-> cache,
          events |-> IF ReadError(d, Reads(f)) = "none"
                     THEN <<Sample(f, "-", 0)>> ELSE <<>>]

\* The loop of __call__: a KeyError of a builder function is logged and
\* the loop goes on; another exception leaves __call__.
RECURSIVE CallLoop(_, _, _, _)
CallLoop(fs, d, cache, topics) ==
    IF fs = <<>>
    THEN [exc |-> "none", cache |-> cache, topics |-> topics]
    ELSE LET r == Build(Head(fs), d, cache)
         IN IF r.exc = "none"
            THEN CallLoop(Tail(fs), d, r.cache, topics \o r.events)
            ELSE IF r.exc = "KeyError"
            THEN CallLoop(Tail(fs), d, r.cache, topics)
            ELSE [exc |-> r.exc, cache |-> r.cache, topics |-> <<>>]

\* StatusTopicsBuilder.__call__(dream_status).
BuildTopics(d) ==
    /\ ncalls < MaxCalls
    /\ ncalls' = ncalls + 1
    /\ dream_status' = d
    /\ LET r == CallLoop(builder_functions, d, camera_event_cache, <<>>)
       IN /\ camera_event_cache' = r.cache
          /\ all_topics' = r.topics
          /\ call_raised' = r.exc
    /\ UNCHANGED <<messages, message_map, bitfield>>

\* The message strings, and the maps from known strings to bit values.
MessageStrings == {"Door is open", "Backdoor is open", "Fan is stuck"}

MessageLists == UNION {[1..n -> MessageStrings] : n \in 0..MaxMessages}

MessageMaps ==
    UNION {[known -> 1..MaxBits] : known \in SUBSET MessageStrings}

\* a | b.
MutBitOr(a, b) == a + b

RECURSIVE BitOr(_, _)
BitOr(a, b) ==
    IF a = 0 THEN b
    ELSE IF b = 0 THEN a
    ELSE (IF a % 2 = 1 \/ b % 2 = 1 THEN 1 ELSE 0)
            + 2 * BitOr(a \div 2, b \div 2)

\* ";".join(unknowns): the strings with a ";" between each two.
RECURSIVE Join(_)
Join(unknowns) ==
    IF Len(unknowns) <= 1 THEN unknowns
    ELSE <<Head(unknowns), ";">> \o Join(Tail(unknowns))

\* The loop of map_to_bitfield.
RECURSIVE MessageLoop(_, _, _, _)
MessageLoop(msgs, map, bitmask, unknowns) ==
    IF msgs = <<>>
    THEN [bitmask |-> bitmask, unknowns |-> Join(unknowns)]
    ELSE IF Head(msgs) \in DOMAIN map
         THEN MessageLoop(Tail(msgs), map, BitOr(bitmask, map[Head(msgs)]),
                          unknowns)
         ELSE MessageLoop(Tail(msgs), map, bitmask,
                          Append(unknowns, Head(msgs)))

map_to_bitfield(msgs, map) == MessageLoop(msgs, map, 0, <<>>)

\* A call of map_to_bitfield, as get_event_status makes two.
MapToBitfield ==
    /\ bitfield = <<>>
    /\ bitfield' = <<map_to_bitfield(messages, message_map)>>
    /\ UNCHANGED <<camera_event_cache, dream_status, all_topics,
                   call_raised, ncalls, messages, message_map>>

InitStatus ==
    /\ camera_event_cache = {}
    /\ dream_status = NoStatus
    /\ all_topics = <<>>
    /\ call_raised = "none"
    /\ ncalls = 0
    /\ messages = <<>>
    /\ message_map = <<>>
    /\ bitfield = <<>>

\* The same, with the arguments of map_to_bitfield chosen.
InitBitfield ==
    /\ camera_event_cache = {}
    /\ dream_status = NoStatus
    /\ all_topics = <<>>
    /\ call_raised = "none"
    /\ ncalls = 0
    /\ messages \in MessageLists
    /\ message_map \in MessageMaps
    /\ bitfield = <<>>

NextTranslate ==
    \E s \in SectionStates, t \in CameraTables :
        /\ IsDocument(s, t)
        /\ BuildTopics([sections |-> s, cameras |-> t])
        /\ UNCHANGED <<wvars, cscvars, uvars, mvars, evars, lvars, essvars>>

NextBitfield == MapToBitfield /\ UNCHANGED <<wvars, cscvars, uvars, mvars, evars, lvars, essvars>>

(***************************************************************************)
(* The bodies of weather_and_status_loop and data_product_loop: which     *)
(* exceptions they catch                                                   *)
(***************************************************************************)

WeatherLoop == "weather_and_status_loop"

ProductLoop == "data_product_loop"

LoopNames == {WeatherLoop, ProductLoop}

\* What a call may raise: the exception classes of write(), the KeyError
\* of a status or product of unexpected format, or nothing.
Raises == {"none", "RuntimeError", "TimeoutError", "ConnectionError",
           "KeyError"}

\* A loop that catches no exception of upload_data_product.
MutCaught(call) == FALSE

\* The calls whose exceptions the loop catches and only logs: the upload
\* of a product (lines 391-394).  The handlers around set_weather_ok and
\* get_status log and raise again.
Caught(call) == call = "upload_data_product"

\* A call of a loop returned or raised e: the loop goes on to the
\* statement next, or its task ends with e.
After(l, call, e, next) ==
    /\ loop_raised' = [loop_raised EXCEPT ![l] = e]
    /\ IF e = "none" \/ Caught(call)
       THEN /\ loop_pc' = [loop_pc EXCEPT ![l] = next]
            /\ UNCHANGED loop_exc
       ELSE /\ loop_pc' = [loop_pc EXCEPT ![l] = "done"]
            /\ loop_exc' = [loop_exc EXCEPT ![l] = e]

\* The test of "while self.model is not None and self.model.connected",
\* reached after the sleep at the end of a cycle.
WhileTest(l, connected_now) ==
    /\ loop_pc[l] = "sleep"
    /\ loop_pc' = [loop_pc EXCEPT ![l] =
            IF ~connected_now THEN "done"
            ELSE IF l = WeatherLoop THEN "read_weather"
            ELSE "get_new_data_products"]
    /\ loop_raised' = [loop_raised EXCEPT ![l] = "none"]
    /\ UNCHANGED <<loop_exc, pending, ess_retries>>

\* Lines 429-495: the weather is read from the ESS; a failure is caught.
ReadWeather(e) ==
    /\ loop_pc[WeatherLoop] = "read_weather"
    /\ loop_raised' = [loop_raised EXCEPT ![WeatherLoop] = e]
    /\ loop_pc' = [loop_pc EXCEPT ![WeatherLoop] =
            IF e = "none" THEN "set_weather_ok" ELSE "ess_sleep"]
    /\ UNCHANGED <<loop_exc, pending, ess_retries>>

\* ess_retries at which the loop gives up: one that gives up one failure
\* early.
MutGivesUp(retries) == retries = 1

\* Line 501: if ess_retries == 0.
GivesUp(retries) == retries = 0

\* Lines 496-511: after the sleep ess_retries is decremented; the loop
\* tries again ("continue"), or, its retries used up, calls fault().
EssSleepDone ==
    /\ loop_pc[WeatherLoop] = "ess_sleep"
    /\ ess_retries' = ess_retries - 1
    /\ loop_pc' = [loop_pc EXCEPT ![WeatherLoop] =
            IF GivesUp(ess_retries') THEN "fault" ELSE "sleep"]
    /\ UNCHANGED <<loop_raised, loop_exc, pending>>

\* Lines 506-511: fault(code=ErrorCode.WEATHER_CSC_ERROR) returns and the
\* loop returns.
FaultReported ==
    /\ loop_pc[WeatherLoop] = "fault"
    /\ loop_pc' = [loop_pc EXCEPT ![WeatherLoop] = "done"]
    /\ UNCHANGED <<loop_raised, loop_exc, pending, ess_retries>>

\* Lines 513-525.
SetWeatherOk(e) ==
    /\ loop_pc[WeatherLoop] = "set_weather_ok"
    /\ After(WeatherLoop, "set_weather_ok", e, "get_status")
    /\ UNCHANGED <<pending, ess_retries>>

\* Lines 527-537: get_status, send_telemetry and send_events.
GetStatus(e) ==
    /\ loop_pc[WeatherLoop] = "get_status"
    /\ After(WeatherLoop, "get_status", e, "sleep")
    /\ UNCHANGED <<pending, ess_retries>>

\* Line 388: the poll returns n products or raises.
GetNewDataProducts(e, n) ==
    /\ loop_pc[ProductLoop] = "get_new_data_products"
    /\ After(ProductLoop, "get_new_data_products", e,
             IF n = 0 THEN "sleep" ELSE "upload_data_product")
    /\ pending' = IF e = "none" THEN n ELSE pending
    /\ UNCHANGED ess_retries

\* Lines 389-394: the upload of the next product returns or raises.
UploadDataProduct(e) ==
    /\ loop_pc[ProductLoop] = "upload_data_product"
    /\ After(ProductLoop, "upload_data_product", e,
             IF pending = 1 THEN "sleep" ELSE "upload_data_product")
    /\ pending' = pending - 1
    /\ UNCHANGED ess_retries

\* The task of a loop is cancelled at one of its awaits: CancelledError
\* is no Exception and no handler of the loops catches it.
CancelLoop(l) ==
    /\ loop_pc[l] # "done"
    /\ loop_pc' = [loop_pc EXCEPT ![l] = "done"]
    /\ loop_exc' = [loop_exc EXCEPT ![l] = "CancelledError"]
    /\ UNCHANGED <<loop_raised, pending, ess_retries>>

\* connect() has created the two tasks; each sleeps before its first test
\* (the weather loop at line 424).
InitLoops ==
    /\ loop_pc = [l \in LoopNames |-> "sleep"]
    /\ loop_raised = [l \in LoopNames |-> "none"]
    /\ loop_exc = [l \in LoopNames |-> "none"]
    /\ pending = 0
    /\ ess_retries = 5

\* What the loop bodies leave alone.
others == <<wvars, cscvars, uvars, tvars, mvars, evars, essvars>>

NextLoops ==
    \/ \E l \in LoopNames, c \in BOOLEAN :
          WhileTest(l, c) /\ UNCHANGED others
    \/ \E e \in Raises :
          ReadWeather(e) /\ UNCHANGED others
    \/ EssSleepDone /\ UNCHANGED others
    \/ FaultReported /\ UNCHANGED others
    \/ \E e \in Raises :
          SetWeatherOk(e) /\ UNCHANGED others
    \/ \E e \in Raises :
          GetStatus(e) /\ UNCHANGED others
    \/ \E e \in Raises, n \in 0..MaxProducts :
          GetNewDataProducts(e, n) /\ UNCHANGED others
    \/ \E e \in Raises :
          UploadDataProduct(e) /\ UNCHANGED others
    \/ \E l \in LoopNames :
          CancelLoop(l) /\ UNCHANGED others

(***************************************************************************)
(* The weather checks of weather_and_status_loop (lines 419-517).          *)
(***************************************************************************)
\* Line 445: air_flow.speed > 25.
WindLimit == 25

\* Line 468: humidity.relativeHumidityItem >= 90.
HumidityLimit == 90

\* Lines 446 and 469: air_flow_age > 300, humidity_age > 300.
AgeLimit == 300

\* What tel_airFlow.aget can give: a sample with its speed and its age
\* (current_time - private_sndStamp), or no sample.  salobj is not part of
\* the repository: without a sample aget returns None, which the loop
\* tests for, or raises TimeoutError.
AirFlows ==
    [kind : {"sample"}, speed : {WindLimit, WindLimit + 1},
     age : {AgeLimit, AgeLimit + 1}]
    \cup [kind : {"None", "TimeoutError"}, speed : {0}, age : {0}]

\* What evt_precipitation.aget can give.
Precipitations ==
    [kind : {"sample"}, raining : BOOLEAN, snowing : BOOLEAN]
    \cup [kind : {"None", "TimeoutError"}, raining : {FALSE},
          snowing : {FALSE}]

\* What tel_relativeHumidity.aget can give.
Humidities ==
    [kind : {"sample"},
     relativeHumidityItem : {HumidityLimit - 1, HumidityLimit},
     age : {AgeLimit, AgeLimit + 1}]
    \cup [kind : {"None", "TimeoutError"}, relativeHumidityItem : {0},
          age : {0}]

\* str() of a bool.
Str(flag) == IF flag THEN "True" ELSE "False"

\* Lines 431-447: the wind check lets weather_ok_flag stand.
WindPasses(air_flow) ==
    ~(\/ air_flow.kind = "None"
      \/ air_flow.speed > WindLimit
      \/ (IF air_flow.kind = "None" THEN 1000000 ELSE air_flow.age)
            > AgeLimit)

\* Lines 449-456.
PrecipitationPasses(precipitation) ==
    ~(\/ precipitation.kind = "None"
      \/ precipitation.raining \/ precipitation.snowing)

\* Lines 458-473.
HumidityPasses(humidity) ==
    ~(\/ humidity.kind = "None"
      \/ humidity.relativeHumidityItem >= HumidityLimit
      \/ (IF humidity.kind = "None" THEN 1000000 ELSE humidity.age)
            > AgeLimit)

\* weather_ok_flag at line 475: a flag that the precipitation check
\* cannot lower.
MutWeatherOk(limits, samples) ==
    /\ limits.use_wind => WindPasses(samples.air_flow)
    /\ limits.use_humidity => HumidityPasses(samples.humidity)

\* weather_ok_flag at line 475: True, unless an enabled check has set it
\* False.
WeatherOk(limits, samples) ==
    /\ limits.use_wind => WindPasses(samples.air_flow)
    /\ limits.use_precipitation
         => PrecipitationPasses(samples.precipitation)
    /\ limits.use_humidity => HumidityPasses(samples.humidity)

\* Lines 432, 450, 459: an aget of an enabled check raises.
AgetRaises(limits, samples) ==
    \/ limits.use_wind /\ samples.air_flow.kind = "TimeoutError"
    \/ limits.use_precipitation
         /\ samples.precipitation.kind = "TimeoutError"
    \/ limits.use_humidity /\ samples.humidity.kind = "TimeoutError"

\* Lines 475-488: the weather report is built when the flag has changed
\* or the log level is DEBUG, and reads air_flow.speed,
\* humidity.relativeHumidityItem and precipitation.raining of the
\* enabled checks: an AttributeError if that sample is None.
ReportRaises(limits, samples, flag, last, debug) ==
    /\ flag # last \/ debug
    /\ \/ limits.use_wind /\ samples.air_flow.kind = "None"
       \/ limits.use_humidity /\ samples.humidity.kind = "None"
       \/ limits.use_precipitation /\ samples.precipitation.kind = "None"

\* One cycle of the loop, from line 428 to the set_weather_ok of line
\* 516, with a model that is present: the try block either raises, and
\* the handler of line 495 ends the cycle with nothing sent, or sets
\* last_weather_ok_flag, and the flag is sent.
WeatherCycle(samples) ==
    LET flag == Str(WeatherOk(weather_limits, samples))
        raises ==
          \/ AgetRaises(weather_limits, samples)
          \/ ReportRaises(weather_limits, samples, flag,
                          last_weather_ok_flag, log_debug)
    IN  /\ ess_samples' = samples
        /\ last_weather_ok_flag' =
              IF raises THEN last_weather_ok_flag ELSE flag
        /\ weather_sent' = IF raises THEN "failed" ELSE flag
        /\ UNCHANGED <<weather_limits, log_debug>>

\* Before the first cycle (line 418: last_weather_ok_flag = None), under
\* the given configuration.
InitChecks(limits, debug) ==
    /\ weather_limits = limits
    /\ log_debug = debug
    /\ ess_samples =
          [air_flow |-> [kind |-> "None", speed |-> 0, age |-> 0],
           precipitation |->
             [kind |-> "None", raining |-> FALSE, snowing |-> FALSE],
           humidity |->
             [kind |-> "None", relativeHumidityItem |-> 0, age |-> 0]]
    /\ last_weather_ok_flag = "None"
    /\ weather_sent = "none"

\* A configuration with every check enabled, at the default log level.
InitWeather ==
    InitChecks([use_wind |-> TRUE, use_precipitation |-> TRUE,
                use_humidity |-> TRUE], FALSE)

NextWeather ==
    \E a \in AirFlows, p \in Precipitations, h \in Humidities :
        /\ WeatherCycle([air_flow |-> a, precipitation |-> p,
                         humidity |-> h])
        /\ UNCHANGED <<wvars, cscvars, uvars, tvars, mvars, evars, lvars>>

(***************************************************************************)
(* Numeric null-handling: to_int, to_float, enum_value_from_str           *)
(***************************************************************************)

\* An optional value is <<>> for None and <<v>> for the value v.
None == <<>>

\* math.nan.
NaN == "nan"

\* to_value(value, default).
to_value(value, default) == IF value = None THEN default ELSE value[1]

\* A to_int that encodes None as 0.
MutTo_int(value) == to_value(value, 0)

to_int(value) == to_value(value, -1)

to_float(value) == to_value(value, NaN)

\* Strings are sequences of letters; the letters of the strings below.
LowerCase == <<"a", "d", "e", "i", "l", "o", "t", "u", "x">>

UpperCase == <<"A", "D", "E", "I", "L", "O", "T", "U", "X">>

Position(c, alphabet) ==
    IF \E i \in DOMAIN alphabet : alphabet[i] = c
    THEN CHOOSE i \in DOMAIN alphabet : alphabet[i] = c
    ELSE 0

upper(c) ==
    IF Position(c, LowerCase) # 0 THEN UpperCase[Position(c, LowerCase)]
    ELSE c

lower(c) ==
    IF Position(c, UpperCase) # 0 THEN LowerCase[Position(c, UpperCase)]
    ELSE c

\* str.capitalize(): the first letter in upper case, the others in lower.
capitalize(s) ==
    [i \in DOMAIN s |-> IF i = 1 THEN upper(s[i]) ELSE lower(s[i])]

\* DREAM.CameraServerMode of ts-xml, by two of its members: the names test
\* _dream_csc.py uses, with values that stand for those of ts-xml.
CameraServerMode ==
    {<<<<"I", "d", "l", "e">>, 1>>, <<<<"A", "u", "t", "o">>, 2>>}

\* enum_value_from_str(enum_cls, s).
enum_value_from_str(enum_cls, s) ==
    IF s = None THEN -1
    ELSE IF \E m \in enum_cls : m[1] = capitalize(s[1])
         THEN (CHOOSE m \in enum_cls : m[1] = capitalize(s[1]))[2]
         ELSE -1

camera_server_mode(s) == enum_value_from_str(CameraServerMode, s)

\* isot_to_tai_unix: a time stamp is modelled by its UTC second; TAI is 37
\* seconds ahead of UTC.
isot_to_tai_unix(isot_str) ==
    IF isot_str = None THEN NaN ELSE isot_str[1] + 37

\* The keys get_events_camera reads of a camera, by kind.
IntKeys ==
    {"num_blanks", "num_darks", "num_bias", "num_flats", "num_science",
     "num_missed", "last_image_seq"}

FloatKeys ==
    {"last_image_timing_latency", "last_image_usb_latency",
     "last_image_artificial_latency", "last_image_pixel_median"}

EnumKeys == {"camera_mode", "last_image_type"}

TimeKeys == {"last_image_triggertime"}

\* The strings of the enumerated fields: names of members in two
\* spellings and a string that names no member.
ModeStrings ==
    {<<"i", "D", "L", "E">>, <<"A", "u", "t", "o">>, <<"x">>}

\* A camera of the status document: every key is there, the keys of nulls
\* hold null, the others the number v or the strings mode and type.
Camera(nulls, v, mode, type) ==
    [k \in IntKeys \cup FloatKeys \cup EnumKeys \cup TimeKeys |->
        IF k \in nulls THEN None
        ELSE IF k = "camera_mode" THEN <<mode>>
        ELSE IF k = "last_image_type" THEN <<type>>
        ELSE <<v>>]

NoCamera == <<>>

NoData == <<>>

\* The body of the loop of get_events_camera for one camera.
CameraRecord(camera) ==
    [source |-> "source",
     cameraMode |-> camera_server_mode(camera["camera_mode"]),
     nBlank |-> to_int(camera["num_blanks"]),
     nDark |-> to_int(camera["num_darks"]),
     nBias |-> to_int(camera["num_bias"]),
     nFlat |-> to_int(camera["num_flats"]),
     nScience |-> to_int(camera["num_science"]),
     nMissed |-> to_int(camera["num_missed"]),
     lastSequenceNumber |-> to_int(camera["last_image_seq"]),
     lastTriggerTime |-> isot_to_tai_unix(camera["last_image_triggertime"]),
     lastImageTimingLatency |->
        to_float(camera["last_image_timing_latency"]),
     lastImageUSBLatency |-> to_float(camera["last_image_usb_latency"]),
     lastImageArtificialLatency |->
        to_float(camera["last_image_artificial_latency"]),
     lastImageType |-> camera_server_mode(camera["last_image_type"]),
     lastImagePixelMedian |-> to_float(camera["last_image_pixel_median"])]

BuildCameraEvent ==
    /\ raw_camera # NoCamera
    /\ event_data = NoData
    /\ event_data' = CameraRecord(raw_camera)
    /\ UNCHANGED <<raw_camera, electronics, temperature_control_event>>

\* What DREAM may report as electronics.peltier_relay and
\* electronics.peltier_dir: the strings the builder tests for, and others.
RelayStrings == {"on", "off", "ON", "On", "auto", "null"}

DirStrings == {"heating", "cooling", "off", "Heating", "COOLING", "null"}

\* A builder whose heatingOn does not look at the relay.
MutGet_event_temperature_control(e) ==
    [heatingOn |-> e.peltier_dir = "heating",
     coolingOn |-> e.peltier_relay = "on" /\ e.peltier_dir = "cooling"]

\* get_event_temperature_control (lines 505-513), and the same lines in
\* DreamCsc.send_events (dream_csc.py, 672-679).
get_event_temperature_control(e) ==
    LET peltier_relay == e.peltier_relay = "on"
        peltier_direction == e.peltier_dir
        heating_on == peltier_relay /\ peltier_direction = "heating"
        cooling_on == peltier_relay /\ peltier_direction = "cooling"
    IN  [heatingOn |-> heating_on, coolingOn |-> cooling_on]

\* A status document arrives and its temperatureControl record is built.
BuildTemperatureControl(e) ==
    /\ electronics' = e
    /\ temperature_control_event' = <<get_event_temperature_control(e)>>
    /\ UNCHANGED <<raw_camera, event_data>>

\* Before the first status document.
InitControl ==
    /\ electronics = [peltier_relay |-> "null", peltier_dir |-> "null"]
    /\ temperature_control_event = <<>>

NextControl ==
    \E relay \in RelayStrings, dir \in DirStrings :
        /\ BuildTemperatureControl(
              [peltier_relay |-> relay, peltier_dir |-> dir])
        /\ UNCHANGED <<wvars, cscvars, uvars, tvars, mvars, lvars, essvars>>

InitEncode ==
    /\ raw_camera = NoCamera
    /\ event_data = NoData
    /\ InitControl

\* The same, with the camera chosen.
InitCamera ==
    /\ \E nulls \in SUBSET (IntKeys \cup FloatKeys \cup EnumKeys
                                \cup TimeKeys),
          v \in 0..MaxCount, mode \in ModeStrings, type \in ModeStrings :
            raw_camera = Camera(nulls, v, mode, type)
    /\ event_data = NoData
    /\ InitControl

NextEncode ==
    BuildCameraEvent /\ UNCHANGED <<wvars, cscvars, uvars, tvars, mvars, lvars, essvars>>

(***************************************************************************)
(* The simulated controller: MockDream.read_loop                          *)
(***************************************************************************)

\* The keys of self.dispatch_dict.
dispatch_dict ==
    {"getStatus", "getNewDataProducts", "setWeather", "setRoof",
     "heartbeat"}

\* The request lines: JSON objects with any of the keys action, request_id
\* and data; "fly" is an action the controller does not know, "null" the
\* JSON null.
RequestKeys == {"action", "request_id", "data"}

Restrict(f, ks) == [k \in ks |-> f[k]]

RequestLines ==
    {Restrict(f, ks) :
        f \in [action : dispatch_dict \cup {"fly"},
               request_id : 1..MaxRequestId,
               data : {"true", "false", "null"}],
        ks \in SUBSET RequestKeys}

NoItems == <<>>

\* {**extra, **base}: the keys of base replace those of extra.
MutMerge(base, extra) ==
    [k \in DOMAIN base \cup DOMAIN extra |->
        IF k \in DOMAIN base THEN base[k] ELSE extra[k]]

\* {**base, **extra}: the keys of extra replace those of base.
Merge(base, extra) ==
    [k \in DOMAIN base \cup DOMAIN extra |->
        IF k \in DOMAIN extra THEN extra[k] ELSE base[k]]

\* items["data"] if "data" in items else None
Data(req) == IF "data" \in DOMAIN req THEN req["data"] ELSE "null"

\* A set_weather and set_roof that accept a request without data.
MutNeedsData(action) == FALSE

\* set_weather and set_roof return an error dictionary for data None.
NeedsData(action) == action \in {"setWeather", "setRoof"}

\* The dictionary the function of an action returns.
func(action, data) ==
    IF action = "getStatus"
    THEN [msg_type |-> "status", status |-> "dream_status"]
    ELSE IF action = "getNewDataProducts"
    THEN [msg_type |-> "list", new_products |-> "dream_new_data_products"]
    ELSE IF NeedsData(action) /\ data = "null"
    THEN [result |-> "error", reason |-> "data required"]
    ELSE <<>>

\* items = await self.read_json()
ReadJson(req) ==
    /\ rpc = "read_json"
    /\ Len(received) < MaxRequests
    /\ items' = req
    /\ received' = Append(received, req)
    /\ rpc' = "handle"
    /\ UNCHANGED written

\* items["action"] or items["request_id"] raises KeyError.
MissingKey ==
    /\ rpc = "handle"
    /\ ~({"action", "request_id"} \subseteq DOMAIN items)
    /\ written' = Append(written,
            [result |-> "error",
             reason |-> IF "action" \notin DOMAIN items
                        THEN "mandatory key missing: action"
                        ELSE "mandatory key missing: request_id"])
    /\ rpc' = "read_json"
    /\ UNCHANGED <<items, received>>

\* action not in self.dispatch_dict.
UnknownAction ==
    /\ rpc = "handle"
    /\ {"action", "request_id"} \subseteq DOMAIN items
    /\ items["action"] \notin dispatch_dict
    /\ written' = Append(written,
            [request_id |-> items["request_id"], result |-> "error",
             reason |-> "Unknown action"])
    /\ rpc' = "read_json"
    /\ UNCHANGED <<items, received>>

\* The function of the action is called and its dictionary written.
Dispatch ==
    /\ rpc = "handle"
    /\ {"action", "request_id"} \subseteq DOMAIN items
    /\ items["action"] \in dispatch_dict
    /\ written' = Append(written,
            Merge([request_id |-> items["request_id"], result |-> "ok"],
                  func(items["action"], Data(items))))
    /\ rpc' = "read_json"
    /\ UNCHANGED <<items, received>>

InitMock ==
    /\ rpc = "read_json"
    /\ items = NoItems
    /\ received = <<>>
    /\ written = <<>>

NextMock ==
    \/ \E req \in RequestLines :
          ReadJson(req) /\ UNCHANGED <<wvars, cscvars, uvars, tvars, evars, lvars, essvars>>
    \/ MissingKey /\ UNCHANGED <<wvars, cscvars, uvars, tvars, evars, lvars, essvars>>
    \/ UnknownAction /\ UNCHANGED <<wvars, cscvars, uvars, tvars, evars, lvars, essvars>>
    \/ Dispatch /\ UNCHANGED <<wvars, cscvars, uvars, tvars, evars, lvars, essvars>>

InitWrite ==
    /\ client_connected = FALSE
    /\ cmd_lock = NoTask
    /\ index_generator = 1
    /\ wpc = [c \in Callers |-> "idle"]
    /\ request_id = [c \in Callers |-> 0]
    /\ last_call = NoCall
    /\ to_server = <<>>
    /\ from_server = <<>>
    /\ last_sent = 0

NextWrite ==
    \/ \E c \in Callers : WriteEnter(c) /\ UNCHANGED svars
    \/ \E c \in Callers : LockAcquired(c) /\ UNCHANGED svars
    \/ \E c \in Callers : ReadResponse(c) /\ UNCHANGED svars
    \/ \E c \in Callers : ReadTimeout(c) /\ UNCHANGED svars
    \/ \E c \in Callers : ReadClosed(c) /\ UNCHANGED svars
    \/ \E c \in Callers : CancelWrite(c) /\ UNCHANGED svars
    \/ ServerReply /\ UNCHANGED svars
    \/ ModelDisconnect /\ UNCHANGED svars
    \/ ModelConnect /\ UNCHANGED svars
    \/ NewModel /\ UNCHANGED svars

Init ==
    /\ InitWrite /\ InitCsc /\ InitUpload /\ InitStatus /\ InitMock
    /\ InitEncode /\ InitLoops /\ InitWeather

SpecWrite == Init /\ [][NextWrite]_vars

Spec == Init /\ [][Next]_vars

\* A state transition command is issued, in a sequence of commands long
\* enough for start, enable, disable and standby.
Lifecycle(A) ==
    /\ commands < MaxLifecycle
    /\ commands' = commands + 1
    /\ A
    /\ UNCHANGED <<wonly, cfgvars, uvars, tvars, mvars, evars, lvars, essvars,
                   drops>>

\* The supervisor under all its commands: those of Next, and do_enable and
\* do_disable with their setRoof requests.
NextLifecycle ==
    \/ Next
    \/ Lifecycle(CmdStart)
    \/ Lifecycle(CmdEnable)
    \/ Lifecycle(CmdDisable)
    \/ Lifecycle(CmdStandby)
    \/ RoofAcquired /\ UNCHANGED quiet
    \/ RoofReplied(TRUE) /\ UNCHANGED quiet
    \/ Trouble(RoofReplied(FALSE))

\* A CSC in simulation mode, which runs its own mock controller, and
\* whose configuration leaves the data product loop out.
InitLifecycle == Init /\ own_mock /\ ~run_data_product_loop

SpecLifecycle == InitLifecycle /\ [][NextLifecycle]_vars

\* A CSC configured to run the data product loop (connect(), lines
\* 159-161) against a DREAM that is not its own mock, with
\* skip_tmpdata_products set or not.
InitRetrieval ==
    /\ InitWrite
    /\ InitCsc
    /\ run_data_product_loop
    /\ ~own_mock
    /\ \E skip \in BOOLEAN : InitPipeline(skip)
    /\ InitStatus
    /\ InitMock
    /\ InitEncode /\ InitLoops /\ InitWeather

SpecUpload == InitRetrieval /\ [][NextUpload]_vars

InitFields ==
    /\ InitWrite /\ InitCsc /\ InitUpload /\ InitStatus /\ InitMock
    /\ own_mock /\ ~run_data_product_loop
    /\ InitCamera
    /\ InitLoops /\ InitWeather

SpecEncode == InitFields /\ [][NextEncode]_vars

SpecLoops == Init /\ [][NextLoops]_vars

SpecControl == Init /\ [][NextControl]_vars

\* The weather checks under every configuration of weather_limits and
\* both log levels.
InitLimits ==
    /\ InitWrite /\ InitCsc /\ InitUpload /\ InitStatus /\ InitMock
    /\ own_mock /\ ~run_data_product_loop
    /\ InitEncode /\ InitLoops
    /\ \E limits \in [use_wind : BOOLEAN, use_precipitation : BOOLEAN,
                       use_humidity : BOOLEAN], debug \in BOOLEAN :
          InitChecks(limits, debug)

SpecWeather == InitLimits /\ [][NextWeather]_vars

SpecMock == Init /\ [][NextMock]_vars

SpecTranslate == Init /\ [][NextTranslate]_vars

InitArguments ==
    /\ InitWrite /\ InitCsc /\ InitUpload /\ InitBitfield /\ InitMock
    /\ InitEncode /\ InitLoops /\ InitWeather

SpecBitfield == InitArguments /\ [][NextBitfield]_vars

\* A step that needs nothing from outside the program but the event loop
\* running the task: of a task that ends, or of a loop task that handles
\* its own fault (self.fault() runs the shutdown in the task that calls it).
FiniteStep ==
    /\ \E x \in Tasks :
          \/ TConn(x) \/ ConnMockStarted(x) \/ TConnModel(x) \/ ConnDone(x)
          \/ TConnRet(x) \/ TConnRaise(x) \/ TStop(x) \/ StopWaited(x)
          \/ TDisc(x) \/ DiscGathered(x) \/ DiscRoofDone(x) \/ DiscClosed(x)
          \/ TDiscTail(x) \/ DiscMockClosed(x) \/ TDiscRet(x)
          \/ TDiscRaise(x)
          \/ (x \in Monitors /\ (HMPoll(x) \/ THMLoop(x) \/ HMBackoffDone(x)))
          \/ (x = Cmd /\ CmdAcked)
    /\ UNCHANGED quiet

\* A task that ends gets the lock it waits for.
LockStep ==
    /\ \E x \in Tasks : ConnAcquired(x) \/ DiscRoofAcquired(x)
    /\ UNCHANGED quiet

\* A cancellation is delivered.
CancelStep == (\E x \in Tasks : Cancelled(x)) /\ UNCHANGED quiet

\* The request of a loop task ends, and the lock is released.
ReplyStep == (\E l \in Loops : LoopReplied(l, TRUE)) /\ UNCHANGED quiet

\* The event loop runs every task that can run, and every await on a
\* timer or a socket that can end does end; the lock is first come, first
\* served, so a task that waits for it gets it.
FairSpec ==
    /\ Spec
    /\ WF_vars(FiniteStep)
    /\ SF_vars(LockStep)
    /\ WF_vars(CancelStep)
    /\ WF_vars(ReplyStep)
    /\ WF_vars(Forget /\ UNCHANGED quiet)

(***************************************************************************)
(* Claims about the protocol client, checked under SpecWrite.              *)
(***************************************************************************)

\* C1: write returns a response to its caller only if the response's
\* request_id equals the request_id sent in that same call; a response
\* read by write whose request_id differs makes the call raise (it ends
\* "bad_request_id", never "ok").
C1_ReturnedIdMatches ==
    /\ last_call.outcome = "ok" =>
          /\ last_call.response.has_request_id
          /\ last_call.response.request_id = last_call.request_id
    /\ ( /\ last_call.response # NoResponse
         /\ last_call.response.has_request_id
         /\ last_call.response.request_id # last_call.request_id )
       => last_call.outcome = "bad_request_id"

\* C1 witness: the second request of a connection was answered with its
\* own id and returned.
C1_Witness ==
    /\ last_call.outcome = "ok"
    /\ last_call.request_id = 2
    /\ last_call.response.request_id = 2

\* The callers that have written a request and not yet finished reading.
InFlight == {c \in Callers : wpc[c] = "reading"}

\* C2: at most one request is in flight at any time (the caller in flight
\* holds the lock), and while a caller stays between writing its request
\* and reading its response no request is written to the connection and
\* no reply is read from it.
C2_OneInFlight ==
    /\ [](Cardinality(InFlight) <= 1)
    /\ [](\A c \in InFlight : cmd_lock = c)
    /\ [][\A c \in Callers :
            (wpc[c] = "reading" /\ wpc'[c] = "reading" /\ client_connected')
            => /\ Len(to_server') <= Len(to_server)
               /\ Len(from_server') >= Len(from_server)]_vars

\* C2 witness: one caller is in flight while the two others wait for the
\* lock.
C2_Witness ==
    \E c \in Callers :
        /\ wpc[c] = "reading"
        /\ \A d \in Callers \ {c} : wpc[d] = "acquire"

(***************************************************************************)
(* Claims about the link supervisor, checked under Spec and FairSpec.      *)
(***************************************************************************)

\* C4: a health monitor calls fault at most once; when its reconnect
\* window has elapsed at the head of the reconnect loop, its next step
\* calls fault and the CSC is in FAULT; it calls fault only from there,
\* with the loop condition false; and the attempt count it reports is
\* the number of connect() calls it made in that reconnect phase.
C4_FaultOnce ==
    /\ [](\A h \in Monitors : fault_calls[h] <= 1)
    /\ [](\A h \in Monitors :
            fault_calls[h] = 1 => reported[h] = connect_calls[h])
    /\ [][\A h \in Monitors :
            (pc[h] = "t_hm_loop" /\ elapsed[h] >= RECONNECT_TIMEOUT)
            => /\ fault_calls'[h] = fault_calls[h] + 1
               /\ summary_state' = "FAULT"]_vars
    /\ [][\A h \in Monitors :
            fault_calls'[h] > fault_calls[h]
            => pc[h] = "t_hm_loop" /\ ~Retry(h)]_vars

\* C4 witness: a health monitor whose window elapsed after five failed
\* connect() calls has called fault once, reporting five attempts.
C4_Witness ==
    \E h \in Monitors :
        /\ fault_calls[h] = 1
        /\ elapsed[h] >= RECONNECT_TIMEOUT
        /\ connect_calls[h] = 5
        /\ reported[h] = 5
        /\ summary_state = "FAULT"

\* The waits the claim names, in order.
ExpectedWaits == <<10, 20, 40, 60, 60>>

\* C5: the wait a health monitor makes after its n-th failed attempt is
\* min(60, 10 * 2^(n-1)): the waits it has made are 10, 20, 40, 60, 60 in
\* this order, the wait it is in is the one of its latest attempt, and
\* the computed wait of every later attempt is 60.
C5_Backoff ==
    /\ \A h \in Monitors : \A i \in 1..Len(waits[h]) :
          waits[h][i] = IF i <= 5 THEN ExpectedWaits[i]
                        ELSE MAXIMUM_RECONNECT_WAIT
    /\ \A h \in Monitors :
          pc[h] = "backoff" => Len(waits[h]) = attempt_number[h]
    /\ \A n \in 1..MaxAttempt :
          SleepTime(n) = IF n <= 5 THEN ExpectedWaits[n]
                         ELSE MAXIMUM_RECONNECT_WAIT

\* C5 witness: a health monitor is in its fifth backoff wait, after waits
\* of 10, 20, 40 and 60.
C5_Witness ==
    \E h \in Monitors :
        /\ pc[h] = "backoff"
        /\ waits[h] = ExpectedWaits

\* C7: when disconnect() returns, connected is false; and a connect()
\* called when the last of connect()/disconnect() to return was a
\* disconnect() does not fail with the already-connected error.
C7_DisconnectThenConnect ==
    /\ \A x \in Tasks : pc[x] = "t_disc_ret" => ~connected
    /\ \A x \in Tasks : pc[x] = "t_conn_raise_ac" => last_op # "disconnect"

\* The callers of stop_health_monitor_and_disconnect(): begin_standby,
\* do_pause, and handle_summary_state in a task that called fault().
ShutdownCtx == {"standby", "pause", "start_fault", "hm_fault", "loop_fault"}

\* Task x closes the connection in this step (line 268).
Closes(x) == pc[x] # "disc_close" /\ pc'[x] = "disc_close"

\* C8: in stop_health_monitor_and_disconnect(), when the loop tasks are
\* cancelled every other health monitor has finished, and when the
\* connection is closed every other loop task has finished too; and
\* whenever disconnect() closes the connection no loop task is inside a
\* request.
C8_ShutdownOrder ==
    /\ [](\A x \in Tasks :
            (pc[x] = "t_disc" /\ ctx[x] \in ShutdownCtx)
            => \A h \in Monitors \ {x} : IsDone(h))
    /\ [][\A x \in Tasks :
            (Closes(x) /\ ctx[x] \in ShutdownCtx)
            => /\ \A h \in Monitors \ {x} : IsDone(h)
               /\ \A l \in Loops \ {x} : IsDone(l)]_vars
    /\ [][\A x \in Tasks :
            Closes(x) => \A l \in Loops \ {x} :
                            pc[l] \notin {"acquire", "reading"}]_vars

\* A loop task the health monitor watches has completed, by returning or
\* by raising (lines 291 and 299).
LoopCompleted ==
    \/ pc[weather_and_status_loop_task] \in {"done_ok", "done_exc"}
    \/ /\ run_data_product_loop
       /\ pc[data_product_loop_task] \in {"done_ok", "done_exc"}

\* The health monitor has made the first attempt of its reconnect phase.
FirstAttempt(h) ==
    pc[h] = "t_conn" /\ ctx[h] = "hm_conn" /\ attempt_number[h] = 1

\* A poll of the watch loop that finds a completed loop task leaves the
\* loop and calls disconnect(close_roof=False).
PollTripsAlways ==
    [][\A h \in Monitors :
          (pc[h] = "watch" /\ ~must_cancel[h] /\ LoopCompleted
              /\ pc'[h] # "watch")
          => pc'[h] = "t_disc" /\ ctx'[h] = "hm_disc"]_vars

\* The same, but for a poll that finds the weather/status loop task
\* cancelled: exception() of a cancelled task raises CancelledError
\* (line 292), which ends the health monitor.
PollTrips ==
    [][\A h \in Monitors :
          (pc[h] = "watch" /\ ~must_cancel[h] /\ LoopCompleted
              /\ pc'[h] # "watch")
          => \/ pc'[h] = "t_disc" /\ ctx'[h] = "hm_disc"
             \/ /\ IsCancelled(weather_and_status_loop_task)
                /\ pc'[h] = "cancelled"]_vars

InReconnect(h) == pc[h] \notin DonePcs /\ ctx[h] \in {"hm_disc", "hm_conn"}

\* In the reconnect phase an error of connect() is caught and followed
\* by the backoff wait, the wait by the head of the loop, and the head of
\* the loop by another attempt while the window has not elapsed and the
\* CSC is not in FAULT; a connect() that succeeds made a new health
\* monitor and new loop tasks, and the old monitor returns.  No monitor
\* makes more than five attempts.
RetryBounded ==
    /\ [](\A h \in Monitors : attempt_number[h] <= 5)
    /\ [][\A h \in Monitors :
            /\ (pc[h] \in {"t_conn_raise", "t_conn_raise_ac"}
                    /\ ctx[h] = "hm_conn")
                => pc'[h] = "backoff"
            /\ (pc[h] = "backoff" /\ pc'[h] # "backoff")
                => pc'[h] \in {"t_hm_loop", "cancelled"}
            /\ (pc[h] = "t_hm_loop" /\ Retry(h))
                => /\ pc'[h] = "t_conn"
                   /\ attempt_number'[h] = attempt_number[h] + 1
            /\ (pc[h] = "t_conn_ret" /\ ctx[h] = "hm_conn")
                => /\ pc'[h] = "done_ok"
                   /\ health_monitor_loop_task # h
                   /\ pc[health_monitor_loop_task] = "watch"
                   /\ pc[weather_and_status_loop_task] = "sleep"
                   /\ run_data_product_loop
                        => pc[data_product_loop_task] = "sleep"]_vars

\* C10 as stated: a health monitor in its reconnect phase eventually
\* returns from a successful connect() or calls fault, and until then
\* every error of connect() is followed by a backoff wait and another
\* attempt within the window.
C10_Original ==
    /\ RetryBounded
    /\ \A h \in Monitors :
          InReconnect(h) ~> (pc[h] = "done_ok" \/ fault_calls[h] = 1)

\* C10, amended: a health monitor in its reconnect phase eventually
\* returns from a successful connect(), calls fault, or is cancelled by
\* stop_health_monitor_and_disconnect; until then every error of
\* connect() is followed by a backoff wait and another attempt within the
\* window.
C10_NoEndlessRetry ==
    /\ RetryBounded
    /\ \A h \in Monitors :
          InReconnect(h)
          ~> (pc[h] = "done_ok" \/ fault_calls[h] = 1 \/ pc[h] = "cancelled")

\* C10 witness: a health monitor whose first connect() raised has waited
\* and returns from its second connect(), which succeeded.
C10_Witness ==
    \E h \in Monitors :
        /\ pc[h] = "t_conn_ret"
        /\ ctx[h] = "hm_conn"
        /\ attempt_number[h] = 2
        /\ waits[h] = <<BASE_RECONNECT_WAIT>>
        /\ connected

(***************************************************************************)
(* Claims about the data retrieval pipeline, checked under SpecUpload.     *)
(***************************************************************************)

\* C3: upload_data_product is idempotent: no key is uploaded twice, and
\* once a key is in S3 a call for a product with that key makes no HTTP
\* fetch and no upload.
C3_UploadIdempotent ==
    /\ [](\A k \in Keys : uploads[k] <= 1)
    /\ [][\A k \in Keys :
            k \in s3bucket
            => fetches'[k] = fetches[k] /\ uploads'[k] = uploads[k]]_vars

\* The places of the loop inside a call of upload_data_product.
InCall == {"exists", "head", "stream", "save_to_s3", "save_to_local_disk"}

Ord(f) == CHOOSE i \in DOMAIN builder_functions : builder_functions[i] = f

\* C11: __call__ never fails: whatever the status document, it raises
\* nothing; the records it returns come in the order of the builder
\* functions, and a builder function other than get_events_camera has its
\* record returned exactly if it read all its sections without an error.
C11_CallNeverFails ==
    ncalls > 0 =>
        /\ call_raised = "none"
        /\ \A i, j \in DOMAIN all_topics :
              i < j => Ord(all_topics[i].topic) <= Ord(all_topics[j].topic)
        /\ \A n \in 2..Len(builder_functions) :
              (\E i \in DOMAIN all_topics :
                    all_topics[i].topic = builder_functions[n])
              <=> ReadError(dream_status, Reads(builder_functions[n])) = "none"

\* C12: map_to_bitfield(messages, map) returns (b, s): a bit of b is set
\* exactly if it is set in the value of a message that is a key of map; s
\* is the messages that are no keys of map, in input order, with a ";"
\* between each two; only known messages give an empty s, only unknown
\* messages give b = 0.
C12_BitfieldAggregation ==
    bitfield # <<>> =>
        LET b == bitfield[1].bitmask
            s == bitfield[1].unknowns
            IsUnknown(m) == m \notin DOMAIN message_map
            unknown == SelectSeq(messages, IsUnknown)
            known == {i \in DOMAIN messages : ~IsUnknown(messages[i])}
            Bit(n, k) == (n \div (2 ^ k)) % 2 = 1
        IN /\ b < 2 ^ (MaxBits + 1)
           /\ \A k \in 0..MaxBits :
                 Bit(b, k) <=> \E i \in known :
                                  Bit(message_map[messages[i]], k)
           /\ Len(s) = IF unknown = <<>> THEN 0 ELSE 2 * Len(unknown) - 1
           /\ \A i \in DOMAIN unknown : s[2 * i - 1] = unknown[i]
           /\ \A i \in 1..(Len(unknown) - 1) : s[2 * i] = ";"
           /\ known = DOMAIN messages => s = <<>>
           /\ known = {} => b = 0

\* C12 witness: a list of two known messages with the bit values 1 and 2
\* around an unknown one gave the bitmask 3 and the unknown message.
C12_Witness ==
    /\ bitfield = <<[bitmask |-> 3, unknowns |-> <<"Fan is stuck">>]>>
    /\ messages = <<"Door is open", "Fan is stuck", "Backdoor is open">>
    /\ DOMAIN message_map = {"Door is open", "Backdoor is open"}
    /\ message_map["Door is open"] = 1
    /\ message_map["Backdoor is open"] = 2

\* C13: a call of __call__ returns a camera record for a camera exactly
\* if the document has a well formed entry for the camera and no event
\* was computed for the camera before or the one last computed differs
\* from the entry's.
C13_CameraEmission ==
    [][ncalls' = ncalls + 1 =>
        \A u \in CameraIds :
            (\E i \in DOMAIN all_topics' :
                  /\ all_topics'[i].topic = "evt_camera"
                  /\ all_topics'[i].source = u)
            <=> \E i \in DOMAIN dream_status'.cameras :
                  LET e == dream_status'.cameras[i]
                  IN /\ e.id = u
                     /\ e.state = "ok"
                     /\ <<u, e.fields>> \notin camera_event_cache]_vars

(***************************************************************************)
(* Further claims about the protocol client, checked under SpecWrite.      *)
(***************************************************************************)

\* C14: the request ids written to the socket are strictly increasing
\* over the life of the process: every request written carries an id
\* greater than the id of the request written before it, whatever
\* disconnections and connections came in between.
C14_IdsIncrease ==
    [][(/\ to_server' # <<>>
        /\ to_server' = Append(to_server, to_server'[Len(to_server')]))
       => to_server'[Len(to_server')] > last_sent]_vars

\* The ways write() fails on the response it read.
ProtocolErrors == {"no_request_id", "bad_request_id", "no_result",
                   "error_result"}

\* C17: write() without a connection fails as not connected and writes
\* nothing; with no response in time it fails with a timeout; on a
\* response without request_id or result, with another request_id or with
\* a result other than ok it fails with a protocol error; and the class
\* of the error tells the three kinds apart.
C17_WriteErrors ==
    /\ last_call.outcome = "not_connected" => last_call.request_id = 0
    /\ last_call.outcome = "timeout" => last_call.response = NoResponse
    /\ last_call.response # NoResponse =>
          LET resp == last_call.response
              bad == \/ ~resp.has_request_id
                     \/ ~resp.has_result
                     \/ resp.request_id # last_call.request_id
                     \/ resp.result # "ok"
          IN /\ bad <=> last_call.outcome \in ProtocolErrors
             /\ ~bad <=> last_call.outcome = "ok"
    /\ last_call.outcome \in {"not_connected", "timeout"} \cup ProtocolErrors
          => \A other \in ({{"not_connected"}, {"timeout"}, ProtocolErrors}
                            \ {k \in {{"not_connected"}, {"timeout"},
                                       ProtocolErrors} :
                                  last_call.outcome \in k}) :
                \A o \in other :
                    ExceptionClass(o) # ExceptionClass(last_call.outcome)

(***************************************************************************)
(* Further claims about the link supervisor, checked under Spec.           *)
(***************************************************************************)

\* C15: DreamModel.connect, entered while the model's client holds an
\* open connection, raises an already-connected error and leaves the
\* client connected: it does not replace the client.
C15_ConnectWhileConnected ==
    [][\A x \in Tasks :
          (/\ pc[x] \in {"t_conn_model", "conn_acquire"}
           /\ pc'[x] # pc[x]
           /\ ~detached[x]
           /\ client_connected)
          => client_connected' /\ pc'[x] = "t_conn_raise_ac"]_vars

\* Where a task stands inside disconnect().
DiscPcs == {"t_disc", "disc_gather", "disc_roof_acquire", "disc_roof_read",
            "disc_close", "t_disc_tail", "disc_mock", "t_disc_ret"}

\* C16: disconnect() called or continued while there is no connection is
\* a no-op: no step of it raises, writes the setRoof request, makes a
\* task or changes a task handle, and the CSC is still disconnected
\* after the step.
C16_DisconnectNoOp ==
    [][\A x \in Tasks :
          (/\ pc[x] \in DiscPcs
           /\ pc'[x] # pc[x]
           /\ ~must_cancel[x]
           /\ ~connected)
          => /\ pc'[x] \notin {"t_disc_raise", "disc_roof_acquire",
                                "disc_roof_read"}
             /\ ~connected'
             /\ handles' = handles
             /\ \A t \in Tasks : pc[t] = "free" => pc'[t] = "free"]_vars

\* C18: when DreamModel.connect fails inside DreamCsc.connect, connect()
\* makes no task and changes no task handle, raises to its caller, and
\* makes no second attempt itself; when it succeeds, connect() makes a
\* new weather/status loop task and a new health monitor, and a new
\* data-product loop task exactly if run_data_product_loop is set, and
\* no other task.
C18_ConnectOutcome ==
    /\ [][\A x \in Tasks :
            (pc[x] = "conn_wait" /\ pc'[x] = "t_conn_raise")
            => /\ handles' = handles
               /\ \A t \in Tasks \ {x} : pc'[t] = pc[t]]_vars
    /\ [][\A x \in Tasks :
            (pc[x] = "t_conn_raise" /\ pc'[x] # pc[x])
            => /\ pc'[x] \in {"idle", "t_stop", "backoff"}
               /\ connect_calls' = connect_calls
               /\ handles' = handles
               /\ \A t \in Tasks \ {x} : pc'[t] = pc[t]]_vars
    /\ [][\A x \in Tasks :
            (pc[x] = "conn_wait" /\ pc'[x] = "t_conn_ret")
            => LET w == weather_and_status_loop_task'
                   h == health_monitor_loop_task'
                   d == data_product_loop_task'
               IN /\ w \in WLoops /\ pc[w] \in DonePcs /\ pc'[w] = "sleep"
                  /\ h \in Monitors /\ pc[h] \in DonePcs /\ pc'[h] = "watch"
                  /\ IF run_data_product_loop
                     THEN d \in DLoops /\ pc[d] \in DonePcs /\ pc'[d] = "sleep"
                     ELSE d = data_product_loop_task
                  /\ \A t \in Tasks \ {x, w, h, d} : pc'[t] = pc[t]
                  /\ ~run_data_product_loop
                        => \A t \in DLoops : pc'[t] = pc[t]]_vars

\* C18 witness: the connect of do_start failed in DreamModel.connect and
\* is about to raise; no task was made.
C18_Witness ==
    /\ pc[Cmd] = "t_conn_raise"
    /\ ctx[Cmd] = "start"
    /\ model = "present"
    /\ ~client_connected
    /\ \A t \in Tasks \ {Cmd} : pc[t] = "free"
    /\ weather_and_status_loop_task = NoTask
    /\ health_monitor_loop_task = NoTask

\* C19: once a health monitor has called fault() and the CSC is in
\* FAULT, and no command is at work, no health monitor begins a connect
\* attempt and no loop task is started.
C19_FaultTerminal ==
    [][(/\ summary_state = "FAULT"
        /\ \E h \in Monitors : fault_calls[h] >= 1
        /\ pc[Cmd] = "idle"
        /\ pc'[Cmd] = "idle")
       => /\ \A m \in Monitors : ~(pc[m] # "t_conn" /\ pc'[m] = "t_conn")
          /\ \A l \in Loops : pc[l] \in DonePcs => pc'[l] \in DonePcs]_vars

\* A reply to getNewDataProducts that is not a list message, lacks
\* new_products, or has an entry that cannot be decoded.
Malformed(r) ==
    \/ r.msg_type # "list"
    \/ ~r.has_new_products
    \/ \E i \in 1..Len(r.new_products) : r.new_products[i] \in BadEntries

\* C20: get_new_data_products is fail-fast.  When the reply to a poll is
\* malformed, the poll ends the data product loop at once, without the list
\* of the loop or the calls of upload_data_product changing; and from then
\* on upload_data_product is called for no product and nothing is fetched
\* or stored.
C20_FailFast ==
    /\ [][(upc = "poll" /\ upc' # "poll" /\ Malformed(response'))
           => /\ upc' = "ended"
              /\ data_products' = data_products
              /\ attempts' = attempts]_vars
    /\ []((response # NoList /\ Malformed(response)) => upc = "ended")
    /\ [][(response # NoList /\ Malformed(response))
           => /\ attempts' = attempts
              /\ fetches' = fetches
              /\ uploads' = uploads
              /\ s3bucket' = s3bucket
              /\ local_disk' = local_disk]_vars

\* C20 witness: the first poll got a list of three entries of which the
\* first two decode and the third does not; the loop has ended and
\* upload_data_product was called for no product.
C20_Witness ==
    /\ upc = "ended"
    /\ response.msg_type = "list"
    /\ response.has_new_products
    /\ Len(response.new_products) = 3
    /\ response.new_products[1].defect = "none"
    /\ response.new_products[2].defect = "none"
    /\ response.new_products[3].defect = "bad_time"
    /\ attempts = <<>>
    /\ cycles = 0

\* C21: in upload_data_product, once the upload to S3 has succeeded the
\* largeFileObjectAvailable event is written for the key and the call
\* returns without a local file being written; when save_to_s3 fails before
\* the upload is made, the body is written to the local path of the same
\* key; and when that write fails too the call raises.
C21_UploadOutcomes ==
    /\ [][(upc = "set_write" /\ upc' # "set_write")
           => /\ Key \in events'
              /\ local_disk' = local_disk
              /\ upc' # "save_to_local_disk"
              /\ failed' = failed]_vars
    /\ [][(upc = "save_to_s3" /\ upc' # "save_to_s3"
             /\ uploads' = uploads)
           => upc' = "save_to_local_disk" /\ failed' = failed]_vars
    /\ [][(upc = "save_to_local_disk" /\ upc' # "save_to_local_disk")
           => \/ local_disk' = local_disk \cup {Key} /\ failed' = failed
              \/ local_disk' = local_disk
                    /\ failed' = failed \cup {data_product}]_vars

\* No HTTP request, upload, local write or event happens in the step.
NothingMoved ==
    /\ fetches' = fetches
    /\ uploads' = uploads
    /\ s3bucket' = s3bucket
    /\ local_disk' = local_disk
    /\ events' = events

\* The call of upload_data_product for the current product ends in the
\* step, with an exception or without.
CallRaises ==
    /\ data_product' = data_product + 1
    /\ failed' = failed \cup {data_product}

CallReturns ==
    /\ data_product' = data_product + 1
    /\ failed' = failed

\* C22 as stated: every call of upload_data_product for a product whose
\* server is not in config.data_product_host goes to the server check and
\* raises there, with no HTTP request, upload or local write made.
C22_Original ==
    /\ [][(upc = "call" /\ attempts' # attempts /\ ~product.server_known)
           => upc' = "exists" /\ NothingMoved]_vars
    /\ [][(upc = "exists" /\ upc' # "exists" /\ ~product.server_known)
           => CallRaises /\ NothingMoved]_vars

\* C22, amended: a call of upload_data_product for a product whose server
\* is not in config.data_product_host, unless the product is skipped as a
\* temporary file (then the call returns at once), raises at the latest
\* at the server check, with no HTTP request, upload or local write made.
C22_UnknownSource ==
    /\ [][(upc = "call" /\ attempts' # attempts /\ ~product.server_known)
           => /\ NothingMoved
              /\ IF skip_tmpdata_products /\ product.tmpdata
                 THEN CallReturns
                 ELSE upc' = "exists" /\ product' = product]_vars
    /\ [][(upc = "exists" /\ upc' # "exists" /\ ~product.server_known)
           => CallRaises /\ NothingMoved]_vars

\* C22 witness: upload_data_product stands at the server check for a
\* product whose server is not configured, after an earlier product of the
\* same list was fetched.
C22_Witness ==
    /\ upc = "exists"
    /\ ~product.server_known
    /\ data_product = 2
    /\ fetches[data_products[1]] = 1
    /\ failed = {}

\* C25: with skip_tmpdata_products configured, a call of
\* upload_data_product for a product whose filename starts with "/tmpdata/"
\* returns at once: no existence check, HTTP request, upload, local write
\* or event.  Every other call, and with skip_tmpdata_products not
\* configured every call whatever the filename, goes on to the existence
\* check.
C25_SkipTemporary ==
    /\ [][(upc = "call" /\ attempts' # attempts
             /\ skip_tmpdata_products /\ product.tmpdata)
           => CallReturns /\ NothingMoved /\ upc' # "exists"]_vars
    /\ [][(upc = "call" /\ attempts' # attempts
             /\ ~(skip_tmpdata_products /\ product.tmpdata))
           => /\ upc' = "exists"
              /\ product' = product
              /\ data_product' = data_product
              /\ failed' = failed
              /\ NothingMoved]_vars

\* C25 witness: under skip_tmpdata_products the only product of a list
\* was handed to upload_data_product, and the call returned without an
\* exception and without an HTTP request: it was skipped.
C25_Witness ==
    /\ skip_tmpdata_products
    /\ upc = "sleep"
    /\ attempts = <<1>>
    /\ failed = {}
    /\ fetches = [k \in Keys |-> 0]

\* The first three parts of C23: the controller's roof value becomes true
\* only by the setRoof request of do_enable; no setRoof request reaches the
\* controller while do_start is at work; when do_disable changes the state
\* to DISABLED its setRoof false has been sent and is the last the
\* controller received.
RoofByCommand ==
    /\ [][(roof' /\ ~roof)
           => ctx'[Cmd] = "enable" /\ pc'[Cmd] = "roof_read"]_vars
    /\ [][ctx[Cmd] = "start" => roof' = roof]_vars
    /\ [][(ctx[Cmd] = "disable" /\ summary_state = "ENABLED"
             /\ summary_state' = "DISABLED")
           => pc[Cmd] = "roof_read" /\ ~roof]_vars

OneReplyEach ==
    Len(written) = Len(received) - (IF rpc = "handle" THEN 1 ELSE 0)

\* The request has both mandatory keys.
WellFormed(req) == {"action", "request_id"} \subseteq DOMAIN req

\* The reply carries the request's identifier.
Echoes(req, reply) ==
    /\ "request_id" \in DOMAIN reply
    /\ reply["request_id"] = req["request_id"]

\* The reply to a request lacking a mandatory key, and to an unknown
\* action.
ErrorReplies(req, reply) ==
    IF ~WellFormed(req)
    THEN /\ DOMAIN reply = {"result", "reason"}
         /\ reply["result"] = "error"
    ELSE req["action"] \notin dispatch_dict
            => /\ Echoes(req, reply)
               /\ DOMAIN reply = {"request_id", "result", "reason"}
               /\ reply["result"] = "error"

\* The command-specific fields of a reply.
CommandFields(req, reply) ==
    /\ req["action"] = "getStatus"
        => "status" \in DOMAIN reply /\ reply["msg_type"] = "status"
    /\ req["action"] = "getNewDataProducts"
        => "new_products" \in DOMAIN reply /\ reply["msg_type"] = "list"

\* C24 as stated: each request line with action and request_id has exactly
\* one reply with the same request_id, of result ok with the command's
\* fields for a recognized action and of result error with a reason for an
\* unknown one; a request lacking a mandatory key has exactly one error
\* reply without a request_id.
C24_Original ==
    /\ OneReplyEach
    /\ \A i \in 1..Len(written) :
          /\ ErrorReplies(received[i], written[i])
          /\ (WellFormed(received[i])
                /\ received[i]["action"] \in dispatch_dict)
             => /\ Echoes(received[i], written[i])
                /\ written[i]["result"] = "ok"
                /\ CommandFields(received[i], written[i])

\* C24, amended: the same, but the reply to a setWeather or setRoof
\* request without data (or with data null) has the request_id, result
\* error and the reason "data required".
C24_OneReply ==
    /\ OneReplyEach
    /\ \A i \in 1..Len(written) :
          /\ ErrorReplies(received[i], written[i])
          /\ (WellFormed(received[i])
                /\ received[i]["action"] \in dispatch_dict)
             => /\ Echoes(received[i], written[i])
                /\ IF /\ received[i]["action"] \in {"setWeather", "setRoof"}
                      /\ ("data" \in DOMAIN received[i]
                            => received[i]["data"] = "null")
                   THEN /\ written[i]["result"] = "error"
                        /\ written[i]["reason"] = "data required"
                   ELSE /\ written[i]["result"] = "ok"
                        /\ CommandFields(received[i], written[i])

\* C24 witness: a request without request_id and a setRoof request without
\* data have been answered.
C24_Witness ==
    /\ rpc = "read_json"
    /\ Len(written) = 2
    /\ DOMAIN received[1] = {"action"}
    /\ "request_id" \notin DOMAIN written[1]
    /\ DOMAIN received[2] = {"action", "request_id"}
    /\ received[2]["action"] = "setRoof"
    /\ written[2]["request_id"] = received[2]["request_id"]

\* The keys of a camera record, and the field of the status document each
\* numeric one is built from.
RecordKeys ==
    {"source", "cameraMode", "nBlank", "nDark", "nBias", "nFlat",
     "nScience", "nMissed", "lastSequenceNumber", "lastTriggerTime",
     "lastImageTimingLatency", "lastImageUSBLatency",
     "lastImageArtificialLatency", "lastImageType", "lastImagePixelMedian"}

IntFields ==
    [nBlank |-> "num_blanks", nDark |-> "num_darks", nBias |-> "num_bias",
     nFlat |-> "num_flats", nScience |-> "num_science",
     nMissed |-> "num_missed", lastSequenceNumber |-> "last_image_seq"]

FloatFields ==
    [lastImageTimingLatency |-> "last_image_timing_latency",
     lastImageUSBLatency |-> "last_image_usb_latency",
     lastImageArtificialLatency |-> "last_image_artificial_latency",
     lastImagePixelMedian |-> "last_image_pixel_median"]

EnumFields ==
    [cameraMode |-> "camera_mode", lastImageType |-> "last_image_type"]

\* The strings of ModeStrings that name no member of CameraServerMode in
\* any spelling.
NoMember == {<<"x">>}

\* C26: to_int(None) = -1 and to_int(v) = v otherwise; to_float(None) is
\* not-a-number and to_float(v) = v otherwise; enum_value_from_str returns
\* -1 for None and for a string that names no member; a camera record has
\* the same fixed set of keys whatever fields of the camera are null, a
\* null numeric field being encoded by its sentinel.
C26_Sentinels ==
    /\ to_int(None) = -1
    /\ to_float(None) = NaN
    /\ \A v \in 0..MaxCount : to_int(<<v>>) = v /\ to_float(<<v>>) = v
    /\ enum_value_from_str(CameraServerMode, None) = -1
    /\ \A s \in NoMember : enum_value_from_str(CameraServerMode, <<s>>) = -1
    /\ event_data # NoData
        => /\ DOMAIN event_data = RecordKeys
           /\ \A k \in DOMAIN IntFields :
                 event_data[k] = IF raw_camera[IntFields[k]] = None THEN -1
                                 ELSE raw_camera[IntFields[k]][1]
           /\ \A k \in DOMAIN FloatFields :
                 IF raw_camera[FloatFields[k]] = None
                 THEN event_data[k] = NaN
                 ELSE event_data[k] = raw_camera[FloatFields[k]][1]
           /\ \A k \in DOMAIN EnumFields :
                 \/ raw_camera[EnumFields[k]] = None
                 \/ raw_camera[EnumFields[k]][1] \in NoMember
                 => event_data[k] = -1

\* C26 witness: a record was built of a camera whose counts and latencies
\* are partly null, whose mode is null and whose last image type names no
\* member.
C26_Witness ==
    /\ event_data # NoData
    /\ raw_camera["num_blanks"] = None
    /\ raw_camera["num_darks"] # None
    /\ raw_camera["last_image_usb_latency"] = None
    /\ raw_camera["last_image_pixel_median"] # None
    /\ raw_camera["last_image_triggertime"] = None
    /\ raw_camera["camera_mode"] = None
    /\ raw_camera["last_image_type"] = <<<<"x">>>>

\* A health monitor that connect() has replaced: it has neither returned
\* nor been cancelled, and health_monitor_loop_task names another task.
Replaced(h) ==
    /\ pc[h] \notin DonePcs \cup {"free"}
    /\ health_monitor_loop_task # h

\* C27: at most one health monitor is at work.  A health monitor that a
\* later connect() has replaced makes no further connect attempt and
\* reports no fault.
C27_OneMonitor ==
    [][\A h \in Monitors :
         Replaced(h) => /\ connect_calls'[h] = connect_calls[h]
                        /\ fault_calls'[h] = fault_calls[h]]_vars

\* C28: the command lock is held only by a caller that is suspended in
\* the critical section of write(), and whenever a caller leaves the
\* critical section, by a reply, a timeout, a closed connection or
\* cancellation, the lock is free in the next state.
C28_LockReleased ==
    /\ [](cmd_lock # NoTask
            => cmd_lock \in Callers /\ wpc[cmd_lock] = "reading")
    /\ [][\A c \in Callers :
            (wpc[c] = "reading" /\ wpc'[c] # "reading")
            => cmd_lock = c /\ cmd_lock' = NoTask]_vars

\* C28 witness: a loop task was cancelled while it waited for the reply to
\* its request; the lock is free and another caller waits for it.
C28_Witness ==
    /\ last_call.outcome = "cancelled"
    /\ last_call.request_id > 0
    /\ cmd_lock = NoTask
    /\ \E c \in Callers : wpc[c] = "acquire"

\* C29: a reply in the socket never carries an identifier a later call
\* will send, and a call that reads a reply carrying another identifier
\* than its own, such as the late reply to a request that timed out,
\* fails with "Received unexpected request_id".
C29_LateReply ==
    /\ [](\A i \in DOMAIN from_server :
            from_server[i].has_request_id
            => from_server[i].request_id < index_generator)
    /\ [][\A c \in Callers :
            (/\ wpc[c] = "reading"
             /\ wpc'[c] = "idle"
             /\ from_server # <<>>
             /\ from_server' = Tail(from_server)
             /\ Head(from_server).has_request_id
             /\ Head(from_server).request_id # request_id[c])
            => last_call' = [caller |-> c, request_id |-> request_id[c],
                             outcome |-> "bad_request_id",
                             response |-> Head(from_server)]]_vars

\* C29 witness: a call has read the reply to an earlier request and has
\* failed on the identifier.
C29_Witness ==
    /\ last_call.outcome = "bad_request_id"
    /\ last_call.response.request_id >= 1
    /\ last_call.response.request_id < last_call.request_id

\* The statements that are the core polling calls of the loops.
PollingCalls == {"set_weather_ok", "get_status", "get_new_data_products"}

C31_CloseRoofNotFatal ==
    /\ [][\A x \in Tasks :
            (/\ pc[x] = "disc_roof_read"
             /\ pc'[x] \notin {"disc_roof_read", "cancelled"})
            => pc'[x] = "disc_close" /\ ~client_connected']_vars
    /\ [][\A x \in Tasks :
            (pc[x] = "t_disc_ret" /\ pc'[x] # "t_disc_ret")
            => model' = "none" /\ ~client_connected']_vars
    /\ [][\A h \in Monitors :
            ctx[h] = "hm_disc"
            => pc'[h] \notin {"disc_roof_read", "disc_roof_acquire"}]_vars

\* C32: the reply to a setWeather or setRoof request (with action and
\* request_id) that has no data field has the request's request_id and
\* the result error, never ok; with data true or false it has the
\* request's request_id and the result ok.
C32_DataRequired ==
    \A i \in 1..Len(written) :
        (WellFormed(received[i])
            /\ received[i]["action"] \in {"setWeather", "setRoof"})
        => /\ Echoes(received[i], written[i])
           /\ "data" \notin DOMAIN received[i]
                => written[i]["result"] = "error"
           /\ ("data" \in DOMAIN received[i]
                /\ received[i]["data"] \in {"true", "false"})
                => written[i]["result"] = "ok"

\* C32 witness: a setWeather request without data and a setRoof request
\* with data false have been answered.
C32_Witness ==
    /\ Len(written) = 2
    /\ DOMAIN received[1] = {"action", "request_id"}
    /\ received[1]["action"] = "setWeather"
    /\ written[1]["result"] = "error"
    /\ DOMAIN received[2] = {"action", "request_id", "data"}
    /\ received[2]["action"] = "setRoof"
    /\ received[2]["data"] = "false"
    /\ written[2]["result"] = "ok"

C33_WeatherFlag ==
    LET a == ess_samples.air_flow
        p == ess_samples.precipitation
        h == ess_samples.humidity
        wind == a.kind = "sample" /\ a.speed <= 25 /\ a.age <= 300
        dry == p.kind = "sample" /\ ~p.raining /\ ~p.snowing
        humid == h.kind = "sample" /\ h.relativeHumidityItem < 90
                   /\ h.age <= 300
    IN  weather_sent \in {"True", "False"}
        => (weather_sent = "True"
              <=> /\ weather_limits.use_wind => wind
                  /\ weather_limits.use_precipitation => dry
                  /\ weather_limits.use_humidity => humid)

\* C33 witness: with every check enabled, wind and humidity at their
\* limits pass, it rains, and the flag sent is false.
C33_Witness ==
    /\ weather_limits = [use_wind |-> TRUE, use_precipitation |-> TRUE,
                         use_humidity |-> TRUE]
    /\ ess_samples.air_flow =
          [kind |-> "sample", speed |-> 25, age |-> 300]
    /\ ess_samples.humidity =
          [kind |-> "sample", relativeHumidityItem |-> 89, age |-> 300]
    /\ ess_samples.precipitation =
          [kind |-> "sample", raining |-> TRUE, snowing |-> FALSE]
    /\ weather_sent = "False"

\* C38: in a cycle in which an enabled weather source gives no sample,
\* the loop sends the weather flag false.
C38_NoSampleSendsFalse ==
    (/\ weather_sent # "none"
     /\ \/ weather_limits.use_wind
            /\ ess_samples.air_flow.kind # "sample"
        \/ weather_limits.use_precipitation
            /\ ess_samples.precipitation.kind # "sample"
        \/ weather_limits.use_humidity
            /\ ess_samples.humidity.kind # "sample")
    => weather_sent = "False"

\* C34: a call of upload_data_product that reaches the storing of the
\* body and returns has stored it in one place.  The write to the local
\* disk is entered only from an upload that was not made, and returns
\* with the file written and no event; a call that made the upload
\* returns from the write of the event, with the event written and the
\* local disk untouched.
C34_OneDestination ==
    /\ [][(upc # "save_to_local_disk" /\ upc' = "save_to_local_disk")
           => upc = "save_to_s3" /\ uploads' = uploads
                /\ s3bucket' = s3bucket]_vars
    /\ [][(upc = "save_to_local_disk" /\ CallReturns)
           => /\ local_disk' = local_disk \cup {Key}
              /\ events' = events
              /\ uploads' = uploads]_vars
    /\ [][(upc = "set_write" /\ CallReturns)
           => /\ events' = events \cup {Key}
              /\ Key \in s3bucket
              /\ local_disk' = local_disk]_vars

\* C35: camera_event_cache holds, per camera, the fields of the record
\* last returned for the camera: a call of __call__ that returns its
\* records, whether get_events_camera raised KeyError in it or not, puts an
\* event into the cache only if the records hold the record of that event,
\* so that a changed record which the call did not return is returned by
\* the next call that sees the same fields.
C35_CacheIsReturned ==
    [][(ncalls' = ncalls + 1 /\ call_raised' = "none")
        => \A p \in camera_event_cache' \ camera_event_cache :
              \E i \in DOMAIN all_topics' :
                  all_topics'[i] = Sample("evt_camera", p[1], p[2])]_vars

\* stop_health_monitor_and_disconnect() has completed and no connect()
\* was called by a command since: a disconnect() was the last of
\* connect() and disconnect() to return, no command is at work, the
\* health monitor that health_monitor_task names has finished, and no
\* task is inside stop_health_monitor_and_disconnect().
ShutDown ==
    /\ last_op = "disconnect"
    /\ pc[Cmd] = "idle"
    /\ health_monitor_loop_task # NoTask
    /\ IsDone(health_monitor_loop_task)
    /\ \A x \in Tasks : ctx[x] \notin ShutdownCtx

\* C36: once stop_health_monitor_and_disconnect() has completed, and
\* until a command calls connect(), no health monitor calls connect() or
\* fault() and no loop task is running.
C36_ShutdownIsFinal ==
    /\ [][(ShutDown /\ pc'[Cmd] = "idle")
           => \A h \in Monitors :
                 /\ connect_calls'[h] <= connect_calls[h]
                 /\ fault_calls'[h] <= fault_calls[h]]_vars
    /\ [](ShutDown => \A l \in Loops : IsDone(l))

\* Every health monitor and every loop task has finished and the
\* connection is closed.
AllStopped ==
    /\ \A h \in Monitors : IsDone(h)
    /\ \A l \in Loops : IsDone(l)
    /\ ~connected

\* C37: whenever the CSC is in FAULT, by the report of a health monitor
\* or of the weather loop, a state follows in which every health monitor
\* and every loop task has finished and the connection is closed.
C37_FaultStopsAll == (summary_state = "FAULT") ~> AllStopped

\* C40: in every temperatureControl record heatingOn and coolingOn are
\* not both true, and both are false unless electronics.peltier_relay is
\* "on".
C40_HeatingOrCooling ==
    \A i \in DOMAIN temperature_control_event :
        LET r == temperature_control_event[i]
        IN  /\ ~(r.heatingOn /\ r.coolingOn)
            /\ electronics.peltier_relay # "on"
                 => ~r.heatingOn /\ ~r.coolingOn

\* C40 witness: the relay is reported "off" with direction "heating", and
\* the record built has neither flag set.
C40_Witness ==
    /\ electronics = [peltier_relay |-> "off", peltier_dir |-> "heating"]
    /\ temperature_control_event =
          <<[heatingOn |-> FALSE, coolingOn |-> FALSE]>>

====
